---- MODULE Spec2Model ----
(***************************************************************************)
(* Role-gated ticket lifecycle, session store, login / OTP flow and route  *)
(* guard of the SafeLive citizen-incident dashboard (Frontend/src).        *)
(*                                                                         *)
(* Every async handler is cut at its awaits: one action for the part that  *)
(* runs up to the request, one for the continuation that runs when the     *)
(* response arrives.  The REST backend and the fetch wrapper (apiClient)   *)
(* are not part of the sources; they are modelled from the specification   *)
(* (section 4.3 table, section 6 envelope, section 4.1 401 policy).        *)
(***************************************************************************)
EXTENDS Integers, FiniteSets, Sequences, TLC

None == "none"

(* ---- bounds ---- *)
MaxInFlight == 2
MaxChallenges == 2
MaxAuthInFlight == 1
MaxSettingsChallenges == 2
MaxSettingsInFlight == 1

(* ---- finite universes ---- *)
Tickets == {"T1", "T2"}
Workers == {"W1", "W2"}
Statuses == {"open", "pending", "in_progress", "resolved", "verified", "rejected"}
OfficialRoles == {"department", "supervisor", "field_inspector", "worker"}
TicketActions == {"assign", "progress", "resolve", "verify", "reopen"}

Accounts == {"cit", "cit2", "dept", "sup", "insp", "wrk", "head"}

userTypeOf(a) ==
  CASE a \in {"cit", "cit2"} -> "citizen"
    [] a = "head" -> "head_supervisor"
    [] a \in {"dept", "sup", "insp", "wrk"} -> "official"
    [] OTHER -> None

officialRoleOf(a) ==
  CASE a = "dept" -> "department"
    [] a = "sup" -> "supervisor"
    [] a = "insp" -> "field_inspector"
    [] a = "wrk" -> "worker"
    [] OTHER -> None

twoFactorEnabledOf(a) == a = "cit2"

OfficialAccounts == {a \in Accounts : userTypeOf(a) = "official"}

(* The accounts that sign in through the login forms.                      *)
LoginAccounts == {"cit", "cit2", "wrk", "head"}

VARIABLES
  token, user,                 \* localStorage 'auth_token' and 'user'
  pathname,                    \* current location
  toast,                       \* title of the last toast shown
  redirectedFrom,              \* what caused the last redirect: the route whose
                               \* guard redirected, or "401"; none otherwise
  navTimers,                   \* setTimeout(() => navigate(dest)) not yet fired
  srvTickets,                  \* backend ticket table
  tickets,                     \* useTickets(): the list cached by the mounted page
  statusSubmittingId, assigningTicketId, progressSubmittingId,
  selectedWorkerByTicket,
  reqs,                        \* ticket requests in flight
  logoutReq,                   \* POST /auth/logout in flight
  profileReq,                  \* GET /users/profile in flight
  officialVariant,             \* which OfficialLoginFormComponent the build mounts
  selectedOfficialRole, loginRole,
  isSubmitting, otpChallengeId, isVerifyingOtp,
  loginReq, otpReq,            \* POST /auth/login, /auth/verify-otp in flight
  chalAcct, chalValid,         \* backend OTP challenges
  settingsOpen,                \* the `open` prop of SettingsModal
  twoFactorEnabled, twoFactorTarget, twoFactorChallengeId, twoFactorBusy,
  passwordChallengeId, passwordBusy, passwordConfirmBusy,
  settingsReq,                 \* SettingsModal OTP requests in flight
  srvIssued,                   \* backend: number of settings challenges issued
  srvChallenge,                \* backend: latest challenge issued per purpose
  srvValid,                    \* backend: settings challenges still valid
  srvTwoFactor,                \* backend: two-factor flag of the account
  newPassword, confirmPassword,  \* password inputs of SettingsModal
  images,                      \* ReportIncident: number of attached photos
  coords, locationDraft,       \* ReportIncident: source of the saved / draft point
  locationDialogOpen, isLocating,
  reportIsSubmitting,          \* ReportIncident's isSubmitting
  incidentReq,                 \* createIncident requests in flight
  gpsReq,                      \* getCurrentPosition calls in flight
  storedOfficialRole,          \* officialRole of the stored user, as typed text
  dashboardRole,               \* OfficialDashboard: role, once rendered
  layoutRole,                  \* OfficialDashboardLayout: role, once rendered
  teamRole                     \* OfficialTeam: normalised officialRole, once rendered

storeVars == <<token, user>>
pageVars == <<tickets, statusSubmittingId, assigningTicketId,
              progressSubmittingId, selectedWorkerByTicket>>
formVars == <<selectedOfficialRole, loginRole, isSubmitting, otpChallengeId,
              isVerifyingOtp>>
pendingVars == <<reqs, logoutReq, profileReq, loginReq, otpReq>>
srvAuthVars == <<chalAcct, chalValid>>
settingsVars == <<settingsOpen, twoFactorEnabled, twoFactorTarget,
                  twoFactorChallengeId, twoFactorBusy, passwordChallengeId,
                  passwordBusy, passwordConfirmBusy, settingsReq>>
srvSettingsVars == <<srvIssued, srvChallenge, srvValid, srvTwoFactor>>
draftVars == <<newPassword, confirmPassword>>
reportVars == <<images, coords, locationDraft, locationDialogOpen, isLocating,
                reportIsSubmitting, incidentReq, gpsReq>>
roleVars == <<storedOfficialRole, dashboardRole, layoutRole, teamRole>>
vars == <<storeVars, pathname, settingsVars, draftVars, reportVars, redirectedFrom, toast, navTimers, srvTickets, pageVars, formVars,
          pendingVars, srvAuthVars, officialVariant, roleVars, srvSettingsVars>>

(* ======================= session store (services/auth) ================= *)

AlwaysAuthenticated == TRUE

isAuthenticated == token # None

getCurrentUser == user

(* ======================= OfficialDashboard.tsx ========================= *)

toRole(value) ==
  IF value = "supervisor" THEN "supervisor"
  ELSE IF value = "field_inspector" THEN "field_inspector"
  ELSE IF value = "worker" THEN "worker"
  ELSE "department"

role == toRole(IF user = None THEN None ELSE officialRoleOf(user))

isTicketsPage == pathname = "/official/tickets"
isReadOnlyDashboard == pathname = "/official/dashboard"
pageMounted == isTicketsPage \/ isReadOnlyDashboard

ticketWorkerNames(tk) == tk.assignees

ticketWorkerIds(tk) == tk.assignees

hasAssignedWorker(tk) == ticketWorkerNames(tk) # {}

isReopenedCase(tk) == tk.reopened

canDepartmentManageReopened(r, tk) ==
  r = "department" /\ isReopenedCase(tk) /\ tk.status # "resolved"

NeverLocked(r, tk) == FALSE

LockedOnlyWhenResolved(r, tk) ==
  /\ (r = "supervisor" \/ canDepartmentManageReopened(r, tk))
  /\ tk.status = "resolved"

isSupervisorLockedTicket(r, tk) ==
  /\ (r = "supervisor" \/ canDepartmentManageReopened(r, tk))
  /\ (tk.status = "verified" \/ tk.status = "resolved")

ReopenAnyStatus(r, tk) == r = "department"

canReopen(r, tk) == r = "department" /\ tk.status = "resolved"

canResolve(r, tk) == r = "department" /\ tk.status # "resolved"

ResolveIgnoringReopen(r, tk) ==
  /\ r = "supervisor"
  /\ tk.status # "resolved"
  /\ tk.status # "verified"

canSupervisorResolve(r, tk) ==
  /\ r = "supervisor"
  /\ tk.status # "resolved"
  /\ tk.status # "verified"
  /\ ~isReopenedCase(tk)

VerifyWithoutWorker(r, tk) ==
  /\ tk.status # "resolved"
  /\ tk.status # "verified"
  /\ (r = "supervisor" \/ canDepartmentManageReopened(r, tk))

canVerify(r, tk) ==
  /\ hasAssignedWorker(tk)
  /\ tk.status # "resolved"
  /\ tk.status # "verified"
  /\ (r = "supervisor" \/ canDepartmentManageReopened(r, tk))

(* Department actions rendered on every official page.                     *)
DepartmentActionsAnywhere(page, r) == r = "department"

showProgressEditor(page, r) == page /\ (r = "field_inspector" \/ r = "worker")

showDepartmentActions(page, r) == page /\ r = "department"

showSupervisorActions(page, r, tk) ==
  page /\ (r = "supervisor" \/ canDepartmentManageReopened(r, tk))

(* What the JSX of one ticket card renders, as a set of offered actions.   *)
OfferedActions(page, r, tk) ==
  {act \in TicketActions :
     \/ act = "resolve" /\ showDepartmentActions(page, r) /\ canResolve(r, tk)
     \/ act = "reopen" /\ showDepartmentActions(page, r) /\ canReopen(r, tk)
     \/ /\ showSupervisorActions(page, r, tk)
        /\ ~isSupervisorLockedTicket(r, tk)
        /\ \/ act = "assign"
           \/ act = "resolve" /\ canSupervisorResolve(r, tk)
           \/ act = "verify" /\ canVerify(r, tk)
     \/ act = "progress" /\ showProgressEditor(page, r)}

(* ======================= backend, from the spec ======================== *)

(* Section 4.3 transition table: role x action -> allowed iff.             *)
TableAllows(r, act, tk) ==
  CASE act = "assign" ->
         /\ tk.status \notin {"verified", "resolved"}
         /\ (r = "supervisor" \/ (r = "department" /\ tk.reopened))
    [] act = "progress" -> r \in {"field_inspector", "worker"}
    [] act = "resolve" ->
         \/ r = "department" /\ tk.status # "resolved"
         \/ r = "supervisor" /\ ~tk.reopened
              /\ tk.status \notin {"verified", "resolved"}
    [] act = "verify" ->
         /\ tk.assignees # {}
         /\ tk.status \notin {"verified", "resolved"}
         /\ \/ r = "supervisor" /\ ~tk.reopened
            \/ r = "department" /\ tk.reopened
    [] act = "reopen" -> r = "department" /\ tk.status = "resolved"
    [] OTHER -> FALSE

TableActions(r, tk) == {act \in TicketActions : TableAllows(r, act, tk)}

(* The backend's effect of an accepted PATCH /tickets/:id/status.          *)
ServerUpdateStatus(r, status, tk) ==
  CASE status = "resolved" ->
         [tk EXCEPT !.status = "resolved",
                    !.reopened = IF r = "department" THEN FALSE ELSE @]
    [] status = "verified" -> [tk EXCEPT !.status = "verified"]
    [] status = "open" -> [tk EXCEPT !.status = "open", !.reopened = TRUE]
    [] OTHER -> tk

(* The backend's effect of an accepted POST /tickets/:id/assign.           *)
ServerAssign(workerIds, tk) == [tk EXCEPT !.assignees = workerIds]

ActionOfStatus(status) ==
  CASE status = "resolved" -> "resolve"
    [] status = "verified" -> "verify"
    [] OTHER -> "reopen"

(* Outcomes of one apiClient request: a response is the envelope           *)
(* {success, data?, error?} (a 401 is a failure that also wipes the        *)
(* session); a network or timeout error rejects the promise (section 7).   *)
ApiOutcomes == {"ok", "fail", "unauthorized", "throw"}

(* Section 4.1: where the 401 handler sends the browser.                   *)
LoginEntryPoint(u) ==
  IF u # None /\ userTypeOf(u) \in {"official", "head_supervisor"}
  THEN "/official/login" ELSE "/login"

(* ======================= RouteGuard.tsx ================================ *)

SessionOnlyGuard(roleProp, target) ==
  IF token = None \/ user = None THEN "/login" ELSE target

RouteGuard(roleProp, target) ==
  IF ~isAuthenticated \/ getCurrentUser = None THEN "/login"
  ELSE IF roleProp = None THEN target
  ELSE IF roleProp = "head_supervisor" THEN
    IF userTypeOf(user) # "head_supervisor" THEN
      IF userTypeOf(user) = "official" THEN "/official/dashboard" ELSE "/dashboard"
    ELSE target
  ELSE IF roleProp = "official" THEN
    IF userTypeOf(user) # "official" THEN
      IF userTypeOf(user) = "head_supervisor"
      THEN "/official/supervisor/dashboard" ELSE "/dashboard"
    ELSE target
  ELSE IF roleProp = "citizen" /\ userTypeOf(user) # "citizen" THEN
    IF userTypeOf(user) = "head_supervisor" THEN "/official/supervisor/dashboard"
    ELSE IF userTypeOf(user) = "official" THEN "/official/dashboard"
    ELSE "/login"
  ELSE target

(* ======================= navigation ==================================== *)

BlankTicket == [status |-> "open", reopened |-> FALSE, assignees |-> {}]
NoTickets == [t \in Tickets |-> BlankTicket]
NoSelection == [t \in Tickets |-> [has |-> FALSE, ids |-> {}]]

IsOfficialPage(path) == path \in {"/official/dashboard", "/official/tickets"}
IsLoginPage(path) == path \in {"/login", "/official/login"}

Stale(rs) == {[r EXCEPT !.stale = TRUE] : r \in rs}

(* The browser arrives at `path`.  The components that were mounted are    *)
(* torn down: their state is lost and the continuations of their pending   *)
(* requests (rs, lo, pr, lr, orq: what is still in flight) run against an  *)
(* unmounted component.  The page at `path` mounts with its initial state; *)
(* an official page starts with a useTickets() fetch.  Navigating to the   *)
(* current path remounts nothing unless the document is reloaded (hard);   *)
(* a reload also drops every pending continuation.                         *)
Go(path, hard, rs, lo, pr, lr, orq, ir) ==
  /\ pathname' = path
  /\ IF path = pathname /\ ~hard
     THEN /\ UNCHANGED <<pageVars, formVars, settingsVars, draftVars, images,
                         coords, locationDraft, locationDialogOpen,
                         isLocating, reportIsSubmitting, gpsReq>>
          /\ incidentReq' = ir
          /\ reqs' = rs /\ logoutReq' = lo /\ profileReq' = pr
          /\ loginReq' = lr /\ otpReq' = orq
     ELSE /\ tickets' = IF IsOfficialPage(path) THEN srvTickets ELSE NoTickets
          /\ statusSubmittingId' = None
          /\ assigningTicketId' = None
          /\ progressSubmittingId' = None
          /\ selectedWorkerByTicket' = NoSelection
          /\ selectedOfficialRole' = "department"
          /\ loginRole' = "official"
          /\ isSubmitting' = FALSE
          /\ otpChallengeId' = 0
          /\ isVerifyingOtp' = FALSE
          /\ reqs' = IF hard THEN {} ELSE Stale(rs)
          /\ logoutReq' = IF hard THEN {} ELSE Stale(lo)
          /\ profileReq' = IF hard THEN {} ELSE Stale(pr)
          /\ loginReq' = IF hard THEN {} ELSE Stale(lr)
          /\ otpReq' = IF hard THEN {} ELSE Stale(orq)
          /\ settingsOpen' = FALSE
          /\ twoFactorEnabled' = FALSE
          /\ twoFactorTarget' = None
          /\ twoFactorChallengeId' = 0
          /\ twoFactorBusy' = FALSE
          /\ passwordChallengeId' = 0
          /\ passwordBusy' = FALSE
          /\ passwordConfirmBusy' = FALSE
          /\ settingsReq' = IF hard THEN {} ELSE Stale(settingsReq)
          /\ newPassword' = ""
          /\ confirmPassword' = ""
          /\ images' = 0
          /\ coords' = None
          /\ locationDraft' = None
          /\ locationDialogOpen' = FALSE
          /\ isLocating' = FALSE
          /\ reportIsSubmitting' = FALSE
          /\ incidentReq' = IF hard THEN {} ELSE Stale(ir)
          /\ gpsReq' = IF hard THEN {} ELSE Stale(gpsReq)

(* apiClient's 401 handler: wipe the session, reload at the login entry.   *)
Unauthorized(rs, lo, pr, lr, orq) ==
  /\ token' = None
  /\ user' = None
  /\ navTimers' = {}
  /\ toast' = None
  /\ redirectedFrom' = "401"
  /\ Go(LoginEntryPoint(user), TRUE, rs, lo, pr, lr, orq, incidentReq)

(* ======================= OfficialDashboard handlers ==================== *)

TicketReq(kind, t, status, ids, phase) ==
  [kind |-> kind, ticket |-> t, status |-> status, workerIds |-> ids,
   phase |-> phase, actor |-> token, stale |-> FALSE]

ServerRole(a) == toRole(IF a = None THEN None ELSE officialRoleOf(a))

(* handleStatusChange up to `await ticketService.updateStatus`.            *)
handleStatusChange(t, status) ==
  /\ isTicketsPage
  /\ ActionOfStatus(status) \in OfferedActions(isTicketsPage, role, tickets[t])
  /\ statusSubmittingId # t
  /\ Cardinality(reqs) < MaxInFlight
  /\ TicketReq("status", t, status, {}, "call") \notin reqs
  /\ statusSubmittingId' = t
  /\ reqs' = reqs \cup {TicketReq("status", t, status, {}, "call")}
  /\ UNCHANGED <<storeVars, pathname, settingsVars, draftVars, reportVars, redirectedFrom, toast, navTimers, srvTickets, tickets,
                 assigningTicketId, progressSubmittingId, selectedWorkerByTicket,
                 formVars, logoutReq, profileReq, loginReq, otpReq, srvAuthVars,
                 officialVariant, roleVars, srvSettingsVars>>

(* A ticket handler without its finally block.                             *)
FinallySkipped(r) ==
  UNCHANGED <<statusSubmittingId, assigningTicketId, progressSubmittingId>>

(* The finally block of a ticket handler: clear its busy flag.             *)
FinallyTicket(r) ==
  /\ statusSubmittingId' =
       IF r.kind = "status" /\ ~r.stale THEN None ELSE statusSubmittingId
  /\ assigningTicketId' =
       IF r.kind = "assign" /\ ~r.stale THEN None ELSE assigningTicketId
  /\ progressSubmittingId' =
       IF r.kind = "progress" /\ ~r.stale THEN None ELSE progressSubmittingId

(* A handler that applied the requested status to its cached ticket and    *)
(* kept it when the request failed.                                        *)
OptimisticFailedCall(r, title, outcome) ==
  /\ outcome \in {"fail", "unauthorized", "throw"}
  /\ IF outcome = "unauthorized"
     THEN /\ r.actor # None
          /\ Unauthorized(reqs \ {r}, logoutReq, profileReq, loginReq, otpReq)
     ELSE /\ toast' = IF outcome = "fail" THEN title ELSE toast
          /\ reqs' = reqs \ {r}
          /\ FinallyTicket(r)
          /\ tickets' = IF r.kind = "status"
                        THEN [tickets EXCEPT ![r.ticket].status = r.status]
                        ELSE [tickets EXCEPT ![r.ticket].assignees = r.workerIds]
          /\ UNCHANGED <<storeVars, pathname, settingsVars, draftVars, reportVars, redirectedFrom,
                         navTimers, selectedWorkerByTicket, formVars,
                         logoutReq, profileReq, loginReq, otpReq>>
  /\ UNCHANGED <<srvTickets, srvAuthVars, officialVariant, roleVars, srvSettingsVars>>

(* A ticket handler whose request did not succeed.  success = false: the   *)
(* destructive toast, return, finally.  A rejected promise: only the       *)
(* finally block runs (the handlers have no catch).  With a 401 the        *)
(* apiClient has wiped the session and reloaded the document.              *)
FailedCall(r, title, outcome) ==
  /\ outcome \in {"fail", "unauthorized", "throw"}
  /\ IF outcome = "unauthorized"
     THEN /\ r.actor # None
          /\ Unauthorized(reqs \ {r}, logoutReq, profileReq, loginReq, otpReq)
     ELSE /\ toast' = IF outcome = "fail" THEN title ELSE toast
          /\ reqs' = reqs \ {r}
          /\ FinallyTicket(r)
          /\ UNCHANGED <<storeVars, pathname, settingsVars, draftVars, reportVars, redirectedFrom, navTimers,
                         tickets, selectedWorkerByTicket, formVars, logoutReq,
                         profileReq, loginReq, otpReq>>
  /\ UNCHANGED <<srvTickets, srvAuthVars, officialVariant, roleVars, srvSettingsVars>>

(* handleStatusChange from the response of updateStatus on.                *)
StatusResponse(r, outcome) ==
  /\ r \in reqs /\ r.kind = "status" /\ r.phase = "call"
  /\ IF outcome = "ok"
     THEN /\ TableAllows(ServerRole(r.actor), ActionOfStatus(r.status),
                        srvTickets[r.ticket])
          /\ srvTickets' = [srvTickets EXCEPT ![r.ticket] =
                 ServerUpdateStatus(ServerRole(r.actor), r.status, @)]
          /\ toast' = "Status Updated"
          /\ reqs' = (reqs \ {r}) \cup {[r EXCEPT !.phase = "refetch"]}
          /\ UNCHANGED <<storeVars, pathname, settingsVars, draftVars, reportVars, redirectedFrom, navTimers, pageVars, formVars,
                         logoutReq, profileReq, loginReq, otpReq, srvAuthVars,
                         officialVariant, roleVars, srvSettingsVars>>
     ELSE FailedCall(r, "Action Failed", outcome)

(* `await refetchTickets()` completes, then the finally block.             *)
RefetchDone(r, outcome) ==
  /\ r \in reqs /\ r.phase = "refetch"
  /\ outcome \in {"ok", "fail"}
  /\ reqs' = reqs \ {r}
  /\ tickets' = IF outcome = "ok" /\ ~r.stale THEN srvTickets ELSE tickets
  /\ FinallyTicket(r)
  /\ UNCHANGED <<storeVars, pathname, settingsVars, draftVars, reportVars, redirectedFrom, toast, navTimers, srvTickets,
                 selectedWorkerByTicket, formVars, logoutReq, profileReq,
                 loginReq, otpReq, srvAuthVars, officialVariant, roleVars, srvSettingsVars>>

preselectedWorkerIds(tk) == IF hasAssignedWorker(tk) THEN ticketWorkerIds(tk) ELSE {}

selectedWorkerIds(t) ==
  IF selectedWorkerByTicket[t].has THEN selectedWorkerByTicket[t].ids
  ELSE preselectedWorkerIds(tickets[t])

(* onCheckedChange of one worker row of the dropdown.                      *)
ToggleWorker(t, w) ==
  /\ isTicketsPage
  /\ "assign" \in OfferedActions(isTicketsPage, role, tickets[t])
  /\ assigningTicketId # t
  /\ selectedWorkerByTicket' = [selectedWorkerByTicket EXCEPT ![t] =
       [has |-> TRUE,
        ids |-> IF w \in selectedWorkerIds(t)
                THEN selectedWorkerIds(t) \ {w}
                ELSE selectedWorkerIds(t) \cup {w}]]
  /\ UNCHANGED <<storeVars, pathname, settingsVars, draftVars, reportVars, redirectedFrom, toast, navTimers, srvTickets, tickets,
                 statusSubmittingId, assigningTicketId, progressSubmittingId,
                 formVars, pendingVars, srvAuthVars, officialVariant, roleVars, srvSettingsVars>>

assignWorkerIds(t) ==
  IF selectedWorkerByTicket[t].has THEN selectedWorkerByTicket[t].ids
  ELSE ticketWorkerIds(tickets[t])

(* handleAssignWorker up to `await ticketService.assignTicket`.            *)
handleAssignWorker(t) ==
  /\ isTicketsPage
  /\ "assign" \in OfferedActions(isTicketsPage, role, tickets[t])
  /\ assigningTicketId # t
  /\ IF assignWorkerIds(t) = {}
     THEN /\ toast' = "Worker Required"
          /\ UNCHANGED <<assigningTicketId, reqs>>
     ELSE /\ Cardinality(reqs) < MaxInFlight
          /\ TicketReq("assign", t, None, assignWorkerIds(t), "call") \notin reqs
          /\ assigningTicketId' = t
          /\ reqs' = reqs \cup
               {TicketReq("assign", t, None, assignWorkerIds(t), "call")}
          /\ UNCHANGED toast
  /\ UNCHANGED <<storeVars, pathname, settingsVars, draftVars, reportVars, redirectedFrom, navTimers, srvTickets, tickets,
                 statusSubmittingId, progressSubmittingId, selectedWorkerByTicket,
                 formVars, logoutReq, profileReq, loginReq, otpReq, srvAuthVars,
                 officialVariant, roleVars, srvSettingsVars>>

(* handleAssignWorker from the response of assignTicket on.                *)
AssignResponse(r, outcome) ==
  /\ r \in reqs /\ r.kind = "assign" /\ r.phase = "call"
  /\ IF outcome = "ok"
     THEN /\ TableAllows(ServerRole(r.actor), "assign", srvTickets[r.ticket])
          /\ srvTickets' = [srvTickets EXCEPT ![r.ticket] =
                 ServerAssign(r.workerIds, @)]
          /\ toast' = "Workers Assigned"
          /\ reqs' = (reqs \ {r}) \cup {[r EXCEPT !.phase = "refetch"]}
          /\ UNCHANGED <<storeVars, pathname, settingsVars, draftVars, reportVars, redirectedFrom, navTimers, pageVars, formVars,
                         logoutReq, profileReq, loginReq, otpReq, srvAuthVars,
                         officialVariant, roleVars, srvSettingsVars>>
     ELSE FailedCall(r, "Assignment Failed", outcome)

(* handleProgressUpdate up to `await ticketService.updateProgress`;        *)
(* longEnough: the trimmed draft has at least 5 characters.                *)
handleProgressUpdate(t, longEnough) ==
  /\ isTicketsPage
  /\ "progress" \in OfferedActions(isTicketsPage, role, tickets[t])
  /\ progressSubmittingId # t
  /\ IF ~longEnough
     THEN /\ toast' = "Update Required"
          /\ UNCHANGED <<progressSubmittingId, reqs>>
     ELSE /\ Cardinality(reqs) < MaxInFlight
          /\ TicketReq("progress", t, None, {}, "call") \notin reqs
          /\ progressSubmittingId' = t
          /\ reqs' = reqs \cup {TicketReq("progress", t, None, {}, "call")}
          /\ UNCHANGED toast
  /\ UNCHANGED <<storeVars, pathname, settingsVars, draftVars, reportVars, redirectedFrom, navTimers, srvTickets, tickets,
                 statusSubmittingId, assigningTicketId, selectedWorkerByTicket,
                 formVars, logoutReq, profileReq, loginReq, otpReq, srvAuthVars,
                 officialVariant, roleVars, srvSettingsVars>>

(* handleProgressUpdate from the response of updateProgress on.  The       *)
(* progress fields are informational: the ticket keeps its status.         *)
ProgressResponse(r, outcome) ==
  /\ r \in reqs /\ r.kind = "progress" /\ r.phase = "call"
  /\ IF outcome = "ok"
     THEN /\ TableAllows(ServerRole(r.actor), "progress", srvTickets[r.ticket])
          /\ toast' = "Progress Updated"
          /\ reqs' = (reqs \ {r}) \cup {[r EXCEPT !.phase = "refetch"]}
          /\ UNCHANGED <<storeVars, pathname, settingsVars, draftVars, reportVars, redirectedFrom, navTimers, srvTickets,
                         pageVars, formVars, logoutReq, profileReq, loginReq,
                         otpReq, srvAuthVars, officialVariant, roleVars, srvSettingsVars>>
     ELSE FailedCall(r, "Update Failed", outcome)

(* ======================= OfficialDashboardLayout ======================= *)

(* authService.logout: `await apiClient.post(LOGOUT)`, then the two        *)
(* removeItem calls.  They run whatever the envelope says, and do not run  *)
(* when the awaited promise rejects.                                       *)
logoutRemoves(outcome) == outcome # "throw"

LogoutRec(origin, tok, stale) ==
  [origin |-> origin, authed |-> tok # None, stale |-> stale]

(* handleLogout up to `await authService.logout()`.                        *)
handleLogout ==
  /\ IsOfficialPage(pathname)
  /\ logoutReq = {}
  /\ logoutReq' = {LogoutRec("layout", token, FALSE)}
  /\ UNCHANGED <<storeVars, pathname, settingsVars, draftVars, reportVars, redirectedFrom, toast, navTimers, srvTickets, pageVars,
                 formVars, reqs, profileReq, loginReq, otpReq, srvAuthVars,
                 officialVariant, roleVars, srvSettingsVars>>

(* handleLogout / the forced logout of a login form, from the response of  *)
(* POST /auth/logout on: the two removeItem calls, then the caller's       *)
(* continuation (navigate('/official/login'), or the form's finally).  A   *)
(* rejected promise skips both; the forms' finally still runs.             *)
LogoutResponse(r, outcome) ==
  /\ r \in logoutReq /\ outcome \in ApiOutcomes
  /\ IF outcome = "unauthorized"
     THEN /\ r.authed
          /\ Unauthorized(reqs, logoutReq \ {r}, profileReq, loginReq, otpReq)
     ELSE /\ token' = IF logoutRemoves(outcome) THEN None ELSE token
          /\ user' = IF logoutRemoves(outcome) THEN None ELSE user
          /\ UNCHANGED <<navTimers, toast>>
          /\ IF r.origin = "layout" /\ outcome # "throw"
             THEN /\ Go("/official/login", FALSE, reqs, logoutReq \ {r},
                        profileReq, loginReq, otpReq, incidentReq)
                  /\ redirectedFrom' = None
             ELSE /\ logoutReq' = logoutReq \ {r}
                  /\ isSubmitting' =
                       IF r.origin = "submit" /\ ~r.stale THEN FALSE
                       ELSE isSubmitting
                  /\ isVerifyingOtp' =
                       IF r.origin = "verify" /\ ~r.stale THEN FALSE
                       ELSE isVerifyingOtp
                  /\ UNCHANGED <<pathname, settingsVars, draftVars, reportVars, redirectedFrom, pageVars,
                                 selectedOfficialRole, loginRole, otpChallengeId,
                                 reqs, profileReq, loginReq, otpReq>>
  /\ UNCHANGED <<srvTickets, srvAuthVars, officialVariant, roleVars, srvSettingsVars>>

(* ======================= router ======================================== *)

Paths == {"/login", "/official/login", "/dashboard", "/official/dashboard",
          "/official/tickets", "/official/supervisor/dashboard"}

(* The role prop of the RouteGuard element that wraps each route.          *)
RouteRole(path) ==
  CASE path = "/dashboard" -> "citizen"
    [] path \in {"/official/dashboard", "/official/tickets"} -> "official"
    [] path = "/official/supervisor/dashboard" -> "head_supervisor"
    [] OTHER -> None

Resolve(path) == IF IsLoginPage(path) THEN path ELSE RouteGuard(RouteRole(path), path)

(* The user follows a link or enters a URL.                                *)
Navigate(path) ==
  /\ path \in Paths
  /\ redirectedFrom' = IF Resolve(path) = path THEN None ELSE path
  /\ Go(Resolve(path), FALSE, reqs, logoutReq, profileReq, loginReq, otpReq,
        incidentReq)
  /\ UNCHANGED <<storeVars, toast, navTimers, srvTickets, srvAuthVars,
                 officialVariant, roleVars, srvSettingsVars>>

(* A setTimeout(() => navigate(dest)) of a login form fires.               *)
TimerFires(dest) ==
  /\ dest \in navTimers
  /\ navTimers' = navTimers \ {dest}
  /\ redirectedFrom' = IF Resolve(dest) = dest THEN None ELSE dest
  /\ Go(Resolve(dest), FALSE, reqs, logoutReq, profileReq, loginReq, otpReq,
        incidentReq)
  /\ UNCHANGED <<storeVars, toast, srvTickets, srvAuthVars, officialVariant, roleVars, srvSettingsVars>>

(* ======================= backend: login and OTP, from the spec ========= *)

ChallengeIds == 1..MaxChallenges

FreeChallenges == {c \in ChallengeIds : chalAcct[c] = None}

NextChallenge == CHOOSE c \in FreeChallenges : \A d \in FreeChallenges : c <= d

(* What POST /auth/login may answer for the account the credentials name:  *)
(* a challenge for a two-factor account, a session for any other.  Wrong   *)
(* credentials fail, and the backend may reject an account that does not   *)
(* fit the expected-role hints, and may not: "fail" is always possible.    *)
LoginResults(q) ==
  {"fail", "throw"}
    \cup (IF q.authed THEN {"unauthorized"} ELSE {})
    \cup (IF twoFactorEnabledOf(q.acct) /\ FreeChallenges # {}
          THEN {"challenge"} ELSE {})
    \cup (IF ~twoFactorEnabledOf(q.acct) THEN {"session"} ELSE {})

(* What POST /auth/verify-otp answers: a session only for a challenge that *)
(* is still valid, and the right code.                                     *)
ServerVerify(cid, codeOk) ==
  IF cid \in chalValid /\ codeOk THEN "ok" ELSE "fail"

VerifyResults(q) ==
  {ServerVerify(q.cid, q.codeOk), "fail", "throw"}
    \cup (IF q.authed THEN {"unauthorized"} ELSE {})

(* A challenge expires on the backend.                                     *)
ExpireChallenge(c) ==
  /\ c \in chalValid
  /\ chalValid' = chalValid \ {c}
  /\ UNCHANGED <<storeVars, pathname, settingsVars, draftVars, reportVars, redirectedFrom, toast, navTimers, srvTickets,
                 pageVars, formVars, pendingVars, chalAcct, officialVariant, roleVars, srvSettingsVars>>

(* ======================= services/auth: login, verifyOtp =============== *)

StoresOnFailure(kind) == kind \in {"session", "fail"}

StoresOnAnySuccess(kind) == kind \in {"session", "challenge"}

(* authService.login writes the session iff response.success and          *)
(* response.data carries a token.                                          *)
loginStores(kind) == kind = "session"

StoresAlsoOnFailure(outcome) == outcome \in {"ok", "fail", "throw"}

StoresOnAnyResponse(outcome) == outcome \in {"ok", "fail"}

(* authService.verifyOtp writes the session iff response.success and       *)
(* response.data?.token.                                                   *)
verifyOtpStores(outcome) == outcome = "ok"

(* ======================= the three login forms ========================= *)

Portal == IF pathname = "/login" THEN "citizen" ELSE officialVariant


(* The userType check of the form's success branch.                        *)
portalAccepts(portal, a) ==
  CASE portal = "citizen" -> TRUE
    [] portal = "role" -> userTypeOf(a) = "official"
    [] OTHER -> userTypeOf(a) \in {"official", "head_supervisor"}

(* Where the form's setTimeout navigates after a successful sign-in.       *)
handleRedirect(portal, a) ==
  CASE portal = "citizen" ->
         IF userTypeOf(a) = "official" THEN "/official/dashboard" ELSE "/dashboard"
    [] portal = "role" -> "/official/dashboard"
    [] OTHER -> IF userTypeOf(a) = "head_supervisor"
                THEN "/official/supervisor/dashboard" ELSE "/official/dashboard"

successTitle(portal) ==
  IF portal = "citizen" THEN "Login Successful!" ELSE "Login Successful"

AuthInFlight == Cardinality(loginReq) + Cardinality(otpReq) + Cardinality(logoutReq)

setSelectedOfficialRole(r) ==
  /\ pathname = "/official/login" /\ officialVariant = "role"
  /\ otpChallengeId = 0
  /\ r \in OfficialRoles /\ r # selectedOfficialRole
  /\ selectedOfficialRole' = r
  /\ UNCHANGED <<storeVars, pathname, settingsVars, draftVars, reportVars, redirectedFrom, toast, navTimers, srvTickets,
                 pageVars, loginRole, isSubmitting, otpChallengeId,
                 isVerifyingOtp, pendingVars, srvAuthVars, officialVariant, roleVars, srvSettingsVars>>

setLoginRole(t) ==
  /\ pathname = "/official/login" /\ officialVariant = "type"
  /\ otpChallengeId = 0
  /\ t \in {"official", "head_supervisor"} /\ t # loginRole
  /\ loginRole' = t
  /\ UNCHANGED <<storeVars, pathname, settingsVars, draftVars, reportVars, redirectedFrom, toast, navTimers, srvTickets,
                 pageVars, selectedOfficialRole, isSubmitting, otpChallengeId,
                 isVerifyingOtp, pendingVars, srvAuthVars, officialVariant, roleVars, srvSettingsVars>>

LoginReq(a) ==
  [acct |-> a, portal |-> Portal,
   expType |-> CASE Portal = "citizen" -> None
                 [] Portal = "role" -> "official"
                 [] OTHER -> loginRole,
   expRole |-> IF Portal = "role" THEN selectedOfficialRole ELSE None,
   authed |-> token # None, stale |-> FALSE]

(* handleSubmit of the mounted login form up to `await authService.login`. *)
handleSubmit(a, isCaptchaValid) ==
  /\ IsLoginPage(pathname)
  /\ otpChallengeId = 0
  /\ ~isSubmitting
  /\ IF ~isCaptchaValid
     THEN /\ toast' = "Captcha Required"
          /\ UNCHANGED <<isSubmitting, loginReq>>
     ELSE /\ AuthInFlight < MaxAuthInFlight
          /\ isSubmitting' = TRUE
          /\ loginReq' = loginReq \cup {LoginReq(a)}
          /\ UNCHANGED toast
  /\ UNCHANGED <<storeVars, pathname, settingsVars, draftVars, reportVars, redirectedFrom, navTimers, srvTickets, pageVars,
                 selectedOfficialRole, loginRole, otpChallengeId, isVerifyingOtp,
                 reqs, logoutReq, profileReq, otpReq, srvAuthVars,
                 officialVariant, roleVars, srvSettingsVars>>

(* The continuation of a form handler after a response with success =      *)
(* true that carries a session for account a: the redirect toast and       *)
(* timer, or "Access Denied" and `await authService.logout()`.  busy is    *)
(* the handler's flag ("submit" or "verify"), cleared by its finally.      *)
SignedIn(q, a, busy, lr, orq) ==
  /\ loginReq' = lr /\ otpReq' = orq
  /\ IF portalAccepts(q.portal, a)
     THEN /\ toast' = IF q.portal = "citizen" /\ busy = "verify"
                      THEN "Verification Successful"
                      ELSE successTitle(q.portal)
          /\ navTimers' = navTimers \cup {handleRedirect(q.portal, a)}
          /\ isSubmitting' = IF busy = "submit" /\ ~q.stale THEN FALSE
                             ELSE isSubmitting
          /\ isVerifyingOtp' = IF busy = "verify" /\ ~q.stale THEN FALSE
                               ELSE isVerifyingOtp
          /\ otpChallengeId' = IF busy = "verify" /\ ~q.stale THEN 0
                               ELSE otpChallengeId
          /\ UNCHANGED logoutReq
     ELSE /\ toast' = "Access Denied"
          /\ logoutReq' = logoutReq \cup {LogoutRec(busy, token', q.stale)}
          /\ UNCHANGED <<navTimers, isSubmitting, isVerifyingOtp, otpChallengeId>>
  /\ UNCHANGED <<pathname, settingsVars, draftVars, reportVars, redirectedFrom, pageVars, selectedOfficialRole, loginRole,
                 reqs, profileReq>>

(* handleSubmit from the response of authService.login on.                 *)
LoginResponse(q, kind) ==
  /\ q \in loginReq /\ kind \in LoginResults(q)
  /\ IF kind = "unauthorized"
     THEN /\ Unauthorized(reqs, logoutReq, profileReq, loginReq \ {q}, otpReq)
          /\ UNCHANGED srvAuthVars
     ELSE /\ token' = IF loginStores(kind)
                      THEN (IF kind = "session" THEN q.acct ELSE "undefined")
                      ELSE token
          /\ user' = IF loginStores(kind)
                     THEN (IF kind = "session" THEN q.acct ELSE "undefined")
                     ELSE user
          /\ chalAcct' = IF kind = "challenge"
                         THEN [chalAcct EXCEPT ![NextChallenge] = q.acct]
                         ELSE chalAcct
          /\ chalValid' = IF kind = "challenge"
                          THEN chalValid \cup {NextChallenge} ELSE chalValid
          /\ IF kind = "session"
             THEN SignedIn(q, q.acct, "submit", loginReq \ {q}, otpReq)
             ELSE /\ toast' =
                       CASE kind = "challenge" -> "OTP Sent"
                         [] kind = "fail" -> "Login Failed"
                         [] OTHER ->
                              IF q.portal = "citizen" THEN "Login Failed" ELSE toast
                  /\ otpChallengeId' =
                       IF kind = "challenge" /\ ~q.stale THEN NextChallenge
                       ELSE otpChallengeId
                  /\ isSubmitting' = IF q.stale THEN isSubmitting ELSE FALSE
                  /\ loginReq' = loginReq \ {q}
                  /\ UNCHANGED <<pathname, settingsVars, draftVars, reportVars, redirectedFrom, navTimers, pageVars,
                                 selectedOfficialRole, loginRole, isVerifyingOtp,
                                 reqs, logoutReq, profileReq, otpReq>>
  /\ UNCHANGED <<srvTickets, officialVariant, roleVars, srvSettingsVars>>

OtpReq(codeOk) ==
  [cid |-> otpChallengeId, codeOk |-> codeOk, portal |-> Portal,
   authed |-> token # None, stale |-> FALSE]

(* handleVerifyOtp up to `await authService.verifyOtp`; entered: the       *)
(* trimmed code is not empty.                                              *)
handleVerifyOtp(entered, codeOk) ==
  /\ IsLoginPage(pathname)
  /\ otpChallengeId # 0
  /\ ~isVerifyingOtp
  /\ IF ~entered
     THEN /\ toast' = "OTP Required"
          /\ UNCHANGED <<isVerifyingOtp, otpReq>>
     ELSE /\ AuthInFlight < MaxAuthInFlight
          /\ isVerifyingOtp' = TRUE
          /\ otpReq' = otpReq \cup {OtpReq(codeOk)}
          /\ UNCHANGED toast
  /\ UNCHANGED <<storeVars, pathname, settingsVars, draftVars, reportVars, redirectedFrom, navTimers, srvTickets, pageVars,
                 selectedOfficialRole, loginRole, isSubmitting, otpChallengeId,
                 reqs, logoutReq, profileReq, loginReq, srvAuthVars,
                 officialVariant, roleVars, srvSettingsVars>>

(* handleVerifyOtp from the response of authService.verifyOtp on.          *)
VerifyOtpResponse(q, outcome) ==
  /\ q \in otpReq /\ outcome \in VerifyResults(q)
  /\ IF outcome = "unauthorized"
     THEN /\ Unauthorized(reqs, logoutReq, profileReq, loginReq, otpReq \ {q})
          /\ UNCHANGED srvAuthVars
     ELSE /\ token' = IF verifyOtpStores(outcome)
                      THEN (IF outcome = "ok" THEN chalAcct[q.cid] ELSE "undefined")
                      ELSE token
          /\ user' = IF verifyOtpStores(outcome)
                     THEN (IF outcome = "ok" THEN chalAcct[q.cid] ELSE "undefined")
                     ELSE user
          /\ chalValid' = IF outcome = "ok" THEN chalValid \ {q.cid} ELSE chalValid
          /\ UNCHANGED chalAcct
          /\ IF outcome = "ok"
             THEN SignedIn(q, chalAcct[q.cid], "verify", loginReq, otpReq \ {q})
             ELSE /\ toast' = IF outcome = "fail" THEN "Verification Failed"
                              ELSE toast
                  /\ isVerifyingOtp' = IF q.stale THEN isVerifyingOtp ELSE FALSE
                  /\ otpReq' = otpReq \ {q}
                  /\ UNCHANGED <<pathname, settingsVars, draftVars, reportVars, redirectedFrom, navTimers, pageVars,
                                 selectedOfficialRole, loginRole, isSubmitting,
                                 otpChallengeId, reqs, logoutReq, profileReq,
                                 loginReq>>
  /\ UNCHANGED <<srvTickets, officialVariant, roleVars, srvSettingsVars>>

(* The "Back to Login" button of the OTP step.                             *)
BackToLogin ==
  /\ IsLoginPage(pathname)
  /\ otpChallengeId # 0
  /\ ~isVerifyingOtp
  /\ otpChallengeId' = 0
  /\ UNCHANGED <<storeVars, pathname, settingsVars, draftVars, reportVars, redirectedFrom, toast, navTimers, srvTickets,
                 pageVars, selectedOfficialRole, loginRole, isSubmitting,
                 isVerifyingOtp, pendingVars, srvAuthVars, officialVariant, roleVars, srvSettingsVars>>

(* ======================= SettingsModal.tsx ============================= *)

Purposes == {"password", "enable2fa", "disable2fa"}

(* SettingsModal as it mounts: closed, nothing requested.                  *)
SettingsClosed ==
  /\ settingsOpen = FALSE
  /\ twoFactorEnabled = FALSE
  /\ twoFactorTarget = None
  /\ twoFactorChallengeId = 0
  /\ twoFactorBusy = FALSE
  /\ passwordChallengeId = 0
  /\ passwordBusy = FALSE
  /\ passwordConfirmBusy = FALSE
  /\ settingsReq = {}
  /\ newPassword = ""
  /\ confirmPassword = ""

(* No ReportIncident page is mounted.                                     *)
NoReport ==
  /\ images = 0
  /\ coords = None
  /\ locationDraft = None
  /\ locationDialogOpen = FALSE
  /\ isLocating = FALSE
  /\ reportIsSubmitting = FALSE
  /\ incidentReq = {}
  /\ gpsReq = {}

(* No component has rendered from a typed officialRole.                    *)
NoRoleRendered ==
  /\ storedOfficialRole = [has |-> FALSE, text |-> <<>>]
  /\ dashboardRole = None
  /\ layoutRole = None
  /\ teamRole = [has |-> FALSE, text |-> <<>>]

NoSettingsChallenges ==
  /\ srvIssued = 0
  /\ srvChallenge = [p \in Purposes |-> 0]
  /\ srvValid = {}

outsideSettings ==
  <<storeVars, pathname, reportVars, redirectedFrom, navTimers, srvTickets, pageVars,
    formVars, pendingVars, srvAuthVars, officialVariant, roleVars>>

twoFactorSwitchValue ==
  IF twoFactorTarget # None THEN twoFactorTarget = "enable" ELSE twoFactorEnabled

SettingsInFlight == Cardinality(settingsReq) + Cardinality(profileReq)

(* The effect that runs when `open` becomes true: reset the OTP state of   *)
(* both sections, take twoFactorEnabled from the stored user (whichever    *)
(* value the stored object holds), start the profile fetch.                *)
OpenSettings(localTwoFactor) ==
  /\ IsOfficialPage(pathname) /\ user # None
  /\ ~settingsOpen
  /\ SettingsInFlight < MaxSettingsInFlight
  /\ settingsOpen' = TRUE
  /\ twoFactorEnabled' = localTwoFactor
  /\ twoFactorTarget' = None
  /\ twoFactorChallengeId' = 0
  /\ passwordChallengeId' = 0
  /\ profileReq' = profileReq \cup {[acct |-> user, stale |-> FALSE]}
  /\ UNCHANGED <<storeVars, pathname, reportVars, redirectedFrom, toast, navTimers,
                 srvTickets, pageVars, formVars, reqs, logoutReq, loginReq,
                 otpReq, srvAuthVars, officialVariant, roleVars, srvSettingsVars,
                 twoFactorBusy, passwordBusy, passwordConfirmBusy,
                 settingsReq, draftVars>>

(* handleClose / the dialog's onOpenChange(false).                         *)
handleClose ==
  /\ settingsOpen
  /\ settingsOpen' = FALSE
  /\ UNCHANGED <<outsideSettings, toast, srvSettingsVars, twoFactorEnabled,
                 twoFactorTarget, twoFactorChallengeId, twoFactorBusy,
                 passwordChallengeId, passwordBusy, passwordConfirmBusy,
                 settingsReq, draftVars>>

(* The profile fetch of the open effect, from its response on.             *)
ProfileResponse(r, outcome) ==
  /\ r \in profileReq /\ outcome \in ApiOutcomes
  /\ IF outcome = "unauthorized"
     THEN /\ token # None
          /\ Unauthorized(reqs, logoutReq, profileReq \ {r}, loginReq, otpReq)
     ELSE /\ profileReq' = profileReq \ {r}
          /\ twoFactorEnabled' = IF outcome = "ok" /\ ~r.stale
                                 THEN srvTwoFactor ELSE twoFactorEnabled
          /\ user' = IF outcome = "ok" THEN r.acct ELSE user
          /\ UNCHANGED <<token, pathname, reportVars, redirectedFrom, toast, navTimers,
                         pageVars, formVars, reqs, logoutReq, loginReq,
                         otpReq, settingsOpen, draftVars, twoFactorTarget,
                         twoFactorChallengeId, twoFactorBusy,
                         passwordChallengeId, passwordBusy,
                         passwordConfirmBusy, settingsReq>>
  /\ UNCHANGED <<srvTickets, srvAuthVars, officialVariant, roleVars, srvSettingsVars>>

SettingsReqRec(kind, cid, target) ==
  [kind |-> kind, cid |-> cid, target |-> target, acct |-> user,
   newPassword |-> IF kind = "confirmPasswordChange" THEN newPassword ELSE None,
   stale |-> FALSE]

(* The backend issues a fresh challenge for a purpose; the purpose's       *)
(* earlier challenge stops being valid.                                    *)
IssueChallenge(p) ==
  /\ srvIssued < MaxSettingsChallenges
  /\ srvIssued' = srvIssued + 1
  /\ srvChallenge' = [srvChallenge EXCEPT ![p] = srvIssued + 1]
  /\ srvValid' = (srvValid \ {srvChallenge[p]}) \cup {srvIssued + 1}

(* The finally block of a SettingsModal handler.                           *)
SettingsFinally(r) ==
  /\ passwordBusy' =
       IF r.kind = "requestPasswordOtp" /\ ~r.stale THEN FALSE ELSE passwordBusy
  /\ passwordConfirmBusy' =
       IF r.kind = "confirmPasswordChange" /\ ~r.stale THEN FALSE
       ELSE passwordConfirmBusy
  /\ twoFactorBusy' =
       IF r.kind \in {"requestTwoFactorOtp", "confirmTwoFactor"} /\ ~r.stale
       THEN FALSE ELSE twoFactorBusy

(* A SettingsModal handler whose request did not succeed: the destructive  *)
(* toast for a failure envelope, then the finally block.                   *)
SettingsFailed(r, title, outcome) ==
  /\ outcome \in {"fail", "unauthorized", "throw"}
  /\ IF outcome = "unauthorized"
     THEN /\ token # None
          /\ Unauthorized(reqs, logoutReq, profileReq, loginReq, otpReq)
     ELSE /\ toast' = IF outcome = "fail" THEN title ELSE toast
          /\ settingsReq' = settingsReq \ {r}
          /\ SettingsFinally(r)
          /\ UNCHANGED <<storeVars, pathname, reportVars, redirectedFrom, navTimers,
                         pageVars, formVars, pendingVars, settingsOpen, draftVars,
                         twoFactorEnabled, twoFactorTarget,
                         twoFactorChallengeId, passwordChallengeId>>
  /\ UNCHANGED <<srvTickets, srvAuthVars, officialVariant, roleVars, srvSettingsVars>>

(* onChange of the New Password and Confirm Password inputs.              *)
setNewPassword(v) ==
  /\ settingsOpen
  /\ newPassword' = v
  /\ UNCHANGED <<outsideSettings, toast, srvSettingsVars, settingsVars,
                 confirmPassword>>

setConfirmPassword(v) ==
  /\ settingsOpen
  /\ confirmPassword' = v
  /\ UNCHANGED <<outsideSettings, toast, srvSettingsVars, settingsVars,
                 newPassword>>

(* The three checks that open requestPasswordOtp; currentOk: the trimmed   *)
(* current password is not empty.  none when all three pass.               *)
passwordFieldsError(currentOk) ==
  CASE ~currentOk -> "Current Password Required"
    [] newPassword = "" -> "New Password Required"
    [] newPassword # confirmPassword -> "Mismatch"
    [] OTHER -> None

(* requestPasswordOtp up to the await.                                     *)
requestPasswordOtp(currentOk) ==
  /\ settingsOpen
  /\ ~passwordBusy /\ ~passwordConfirmBusy
  /\ IF passwordFieldsError(currentOk) # None
     THEN /\ toast' = passwordFieldsError(currentOk)
          /\ UNCHANGED <<passwordBusy, settingsReq>>
     ELSE /\ SettingsInFlight < MaxSettingsInFlight
          /\ passwordBusy' = TRUE
          /\ settingsReq' = settingsReq \cup
               {SettingsReqRec("requestPasswordOtp", 0, None)}
          /\ UNCHANGED toast
  /\ UNCHANGED <<outsideSettings, srvSettingsVars, settingsOpen, draftVars,
                 twoFactorEnabled, twoFactorTarget, twoFactorChallengeId,
                 twoFactorBusy, passwordChallengeId, passwordConfirmBusy>>

(* requestPasswordOtp from the response on.                                *)
PasswordOtpResponse(r, outcome) ==
  /\ r \in settingsReq /\ r.kind = "requestPasswordOtp"
  /\ IF outcome = "ok"
     THEN /\ IssueChallenge("password")
          /\ passwordChallengeId' =
               IF r.stale THEN passwordChallengeId ELSE srvIssued + 1
          /\ toast' = "OTP Sent"
          /\ settingsReq' = settingsReq \ {r}
          /\ SettingsFinally(r)
          /\ UNCHANGED <<outsideSettings, srvTwoFactor, settingsOpen, draftVars,
                         twoFactorEnabled, twoFactorTarget,
                         twoFactorChallengeId>>
     ELSE SettingsFailed(r, "OTP Failed", outcome)

(* confirmPasswordChange without its `if (!passwordChallengeId) return`.    *)
ConfirmWithoutChallenge(entered) ==
  /\ settingsOpen
  /\ ~passwordConfirmBusy /\ ~passwordBusy
  /\ entered
  /\ SettingsInFlight < MaxSettingsInFlight
  /\ passwordConfirmBusy' = TRUE
  /\ settingsReq' = settingsReq \cup
       {SettingsReqRec("confirmPasswordChange", passwordChallengeId, None)}
  /\ UNCHANGED <<outsideSettings, toast, srvSettingsVars, settingsOpen, draftVars,
                 twoFactorEnabled, twoFactorTarget, twoFactorChallengeId,
                 twoFactorBusy, passwordChallengeId, passwordBusy>>

(* confirmPasswordChange up to the await; entered: the trimmed OTP is not  *)
(* empty.                                                                  *)
confirmPasswordChange(entered) ==
  /\ settingsOpen
  /\ passwordChallengeId # 0
  /\ ~passwordConfirmBusy /\ ~passwordBusy
  /\ IF ~entered
     THEN /\ toast' = "OTP Required"
          /\ UNCHANGED <<passwordConfirmBusy, settingsReq>>
     ELSE /\ SettingsInFlight < MaxSettingsInFlight
          /\ passwordConfirmBusy' = TRUE
          /\ settingsReq' = settingsReq \cup
               {SettingsReqRec("confirmPasswordChange", passwordChallengeId, None)}
          /\ UNCHANGED toast
  /\ UNCHANGED <<outsideSettings, srvSettingsVars, settingsOpen, draftVars,
                 twoFactorEnabled, twoFactorTarget, twoFactorChallengeId,
                 twoFactorBusy, passwordChallengeId, passwordBusy>>

(* confirmPasswordChange from the response on.                             *)
ConfirmPasswordResponse(r, outcome) ==
  /\ r \in settingsReq /\ r.kind = "confirmPasswordChange"
  /\ IF outcome = "ok"
     THEN /\ r.cid \in srvValid /\ r.cid = srvChallenge["password"]
          /\ srvValid' = srvValid \ {r.cid}
          /\ passwordChallengeId' = IF r.stale THEN passwordChallengeId ELSE 0
          /\ newPassword' = IF r.stale THEN newPassword ELSE ""
          /\ confirmPassword' = IF r.stale THEN confirmPassword ELSE ""
          /\ toast' = "Password Updated"
          /\ settingsReq' = settingsReq \ {r}
          /\ SettingsFinally(r)
          /\ UNCHANGED <<outsideSettings, srvIssued, srvChallenge,
                         srvTwoFactor, settingsOpen, twoFactorEnabled,
                         twoFactorTarget, twoFactorChallengeId>>
     ELSE SettingsFailed(r, "Change Failed", outcome)

(* The 2FA switch: requestTwoFactorOtp(next) up to the await.              *)
requestTwoFactorOtp ==
  /\ settingsOpen
  /\ ~twoFactorBusy /\ twoFactorChallengeId = 0
  /\ SettingsInFlight < MaxSettingsInFlight
  /\ twoFactorBusy' = TRUE
  /\ settingsReq' = settingsReq \cup
       {SettingsReqRec("requestTwoFactorOtp", 0,
                       IF twoFactorSwitchValue THEN "disable" ELSE "enable")}
  /\ UNCHANGED <<outsideSettings, toast, srvSettingsVars, settingsOpen, draftVars,
                 twoFactorEnabled, twoFactorTarget, twoFactorChallengeId,
                 passwordChallengeId, passwordBusy, passwordConfirmBusy>>

(* requestTwoFactorOtp from the response on.                               *)
TwoFactorOtpResponse(r, outcome) ==
  /\ r \in settingsReq /\ r.kind = "requestTwoFactorOtp"
  /\ IF outcome = "ok"
     THEN /\ IssueChallenge(IF r.target = "enable" THEN "enable2fa"
                            ELSE "disable2fa")
          /\ twoFactorTarget' = IF r.stale THEN twoFactorTarget ELSE r.target
          /\ twoFactorChallengeId' =
               IF r.stale THEN twoFactorChallengeId ELSE srvIssued + 1
          /\ toast' = "OTP Sent"
          /\ settingsReq' = settingsReq \ {r}
          /\ SettingsFinally(r)
          /\ UNCHANGED <<outsideSettings, srvTwoFactor, settingsOpen, draftVars,
                         twoFactorEnabled, passwordChallengeId>>
     ELSE SettingsFailed(r, "OTP Failed", outcome)

(* confirmTwoFactor up to the await.                                       *)
confirmTwoFactor(entered) ==
  /\ settingsOpen
  /\ twoFactorChallengeId # 0 /\ twoFactorTarget # None
  /\ ~twoFactorBusy
  /\ IF ~entered
     THEN /\ toast' = "OTP Required"
          /\ UNCHANGED <<twoFactorBusy, settingsReq>>
     ELSE /\ SettingsInFlight < MaxSettingsInFlight
          /\ twoFactorBusy' = TRUE
          /\ settingsReq' = settingsReq \cup
               {SettingsReqRec("confirmTwoFactor", twoFactorChallengeId,
                               twoFactorTarget)}
          /\ UNCHANGED toast
  /\ UNCHANGED <<outsideSettings, srvSettingsVars, settingsOpen, draftVars,
                 twoFactorEnabled, twoFactorTarget, twoFactorChallengeId,
                 passwordChallengeId, passwordBusy, passwordConfirmBusy>>

(* confirmTwoFactor from the response on; authService.confirmEnable2fa    *)
(* and confirmDisable2fa store the returned user on success.               *)
ConfirmTwoFactorResponse(r, outcome) ==
  /\ r \in settingsReq /\ r.kind = "confirmTwoFactor"
  /\ IF outcome = "ok"
     THEN /\ r.cid \in srvValid
          /\ r.cid = srvChallenge[IF r.target = "enable" THEN "enable2fa"
                                  ELSE "disable2fa"]
          /\ srvValid' = srvValid \ {r.cid}
          /\ srvTwoFactor' = (r.target = "enable")
          /\ twoFactorEnabled' =
               IF r.stale THEN twoFactorEnabled ELSE r.target = "enable"
          /\ twoFactorTarget' = IF r.stale THEN twoFactorTarget ELSE None
          /\ twoFactorChallengeId' = IF r.stale THEN twoFactorChallengeId ELSE 0
          /\ user' = r.acct
          /\ toast' = "Updated"
          /\ settingsReq' = settingsReq \ {r}
          /\ SettingsFinally(r)
          /\ UNCHANGED <<token, pathname, reportVars, redirectedFrom, navTimers,
                         srvTickets, pageVars, formVars, pendingVars,
                         srvAuthVars, officialVariant, roleVars, srvIssued,
                         srvChallenge, settingsOpen, draftVars, passwordChallengeId>>
     ELSE SettingsFailed(r, "Update Failed", outcome)

(* The Cancel button of the 2FA OTP box.                                   *)
CancelTwoFactor ==
  /\ settingsOpen
  /\ twoFactorChallengeId # 0 /\ ~twoFactorBusy
  /\ twoFactorTarget' = None
  /\ twoFactorChallengeId' = 0
  /\ UNCHANGED <<outsideSettings, toast, srvSettingsVars, settingsOpen, draftVars,
                 twoFactorEnabled, twoFactorBusy, passwordChallengeId,
                 passwordBusy, passwordConfirmBusy, settingsReq>>

(* ======================= ReportIncident.tsx ============================ *)

PhotoLimit == 5

ReportMounted == pathname = "/dashboard/report"

outsideReport ==
  <<storeVars, pathname, settingsVars, draftVars, redirectedFrom, navTimers,
    srvTickets, pageVars, formVars, pendingVars, srvAuthVars, officialVariant, roleVars,
    srvSettingsVars>>

(* handleImageUpload with n files chosen: at most 5 photos are kept.       *)
handleImageUpload(n) ==
  /\ ReportMounted
  /\ images' = IF images + n > PhotoLimit THEN PhotoLimit ELSE images + n
  /\ UNCHANGED <<outsideReport, toast, coords, locationDraft,
                 locationDialogOpen, isLocating, reportIsSubmitting,
                 incidentReq, gpsReq>>

removeImage ==
  /\ ReportMounted
  /\ images > 0
  /\ images' = images - 1
  /\ UNCHANGED <<outsideReport, toast, coords, locationDraft,
                 locationDialogOpen, isLocating, reportIsSubmitting,
                 incidentReq, gpsReq>>

(* fetchGpsLocation up to `await new Promise(getCurrentPosition)`, called  *)
(* by the page's "Use Live GPS" button (target "page") or the dialog's     *)
(* (target "dialog"); supported: navigator.geolocation exists.             *)
fetchGpsLocation(target, supported) ==
  /\ ReportMounted
  /\ ~isLocating
  /\ IF target = "page" THEN ~reportIsSubmitting ELSE locationDialogOpen
  /\ IF ~supported
     THEN /\ toast' = "GPS Required"
          /\ UNCHANGED <<isLocating, gpsReq>>
     ELSE /\ Cardinality(gpsReq) < MaxInFlight
          /\ isLocating' = TRUE
          /\ gpsReq' = gpsReq \cup {[target |-> target, stale |-> FALSE]}
          /\ UNCHANGED toast
  /\ UNCHANGED <<outsideReport, images, coords, locationDraft,
                 locationDialogOpen, reportIsSubmitting, incidentReq>>

(* fetchGpsLocation from the position callback on, and what its caller     *)
(* does with the result (the mount effect and the page button set coords,  *)
(* the dialog button sets the draft).                                      *)
GpsResponse(g, ok) ==
  /\ g \in gpsReq
  /\ gpsReq' = gpsReq \ {g}
  /\ isLocating' = IF g.stale THEN isLocating ELSE FALSE
  /\ coords' = IF ok /\ ~g.stale /\ g.target # "dialog"
               THEN "live_gps" ELSE coords
  /\ locationDraft' = IF ok /\ ~g.stale /\ g.target = "dialog"
                      THEN "live_gps" ELSE locationDraft
  /\ toast' = IF ~ok /\ g.target # "mount" THEN "GPS Required" ELSE toast
  /\ UNCHANGED <<outsideReport, images, locationDialogOpen,
                 reportIsSubmitting, incidentReq>>

openLocationDialog ==
  /\ ReportMounted
  /\ ~reportIsSubmitting
  /\ locationDraft' = coords
  /\ locationDialogOpen' = TRUE
  /\ UNCHANGED <<outsideReport, toast, images, coords, isLocating,
                 reportIsSubmitting, incidentReq, gpsReq>>

updateDraftFromMap ==
  /\ ReportMounted
  /\ locationDialogOpen
  /\ locationDraft' = "map_pick"
  /\ UNCHANGED <<outsideReport, toast, images, coords, locationDialogOpen,
                 isLocating, reportIsSubmitting, incidentReq, gpsReq>>

(* The dialog's Cancel button / onOpenChange(false).                       *)
closeLocationDialog ==
  /\ ReportMounted
  /\ locationDialogOpen
  /\ locationDialogOpen' = FALSE
  /\ locationDraft' = None
  /\ UNCHANGED <<outsideReport, toast, images, coords, isLocating,
                 reportIsSubmitting, incidentReq, gpsReq>>

saveLocationFromDialog ==
  /\ ReportMounted
  /\ locationDialogOpen
  /\ IF locationDraft = None
     THEN /\ toast' = "Location Required"
          /\ UNCHANGED <<coords, locationDialogOpen>>
     ELSE /\ coords' = locationDraft
          /\ locationDialogOpen' = FALSE
          /\ UNCHANGED toast
  /\ UNCHANGED <<outsideReport, images, locationDraft, isLocating,
                 reportIsSubmitting, incidentReq, gpsReq>>

(* A handleSubmit that sends the report whether or not a point is saved.   *)
SubmitWithoutCoords ==
  /\ ReportMounted
  /\ ~reportIsSubmitting /\ ~isLocating
  /\ IF images = 0
     THEN /\ toast' = "Photos Required"
          /\ UNCHANGED <<locationDialogOpen, reportIsSubmitting, incidentReq>>
     ELSE /\ Cardinality(incidentReq) < MaxInFlight
          /\ reportIsSubmitting' = TRUE
          /\ incidentReq' = incidentReq \cup
               {[coords |-> coords, authed |-> token # None, stale |-> FALSE]}
          /\ UNCHANGED <<toast, locationDialogOpen>>
  /\ UNCHANGED <<outsideReport, images, coords, locationDraft, isLocating,
                 gpsReq>>

(* ReportIncident.handleSubmit (called by the form with valid data) up to  *)
(* `await incidentService.createIncident`.                                 *)
reportHandleSubmit ==
  /\ ReportMounted
  /\ ~reportIsSubmitting /\ ~isLocating
  /\ IF images = 0
     THEN /\ toast' = "Photos Required"
          /\ UNCHANGED <<locationDialogOpen, reportIsSubmitting, incidentReq>>
     ELSE IF coords = None
     THEN /\ locationDialogOpen' = TRUE
          /\ toast' = "Location Required"
          /\ UNCHANGED <<reportIsSubmitting, incidentReq>>
     ELSE /\ Cardinality(incidentReq) < MaxInFlight
          /\ reportIsSubmitting' = TRUE
          /\ incidentReq' = incidentReq \cup
               {[coords |-> coords, authed |-> token # None, stale |-> FALSE]}
          /\ UNCHANGED <<toast, locationDialogOpen>>
  /\ UNCHANGED <<outsideReport, images, coords, locationDraft, isLocating,
                 gpsReq>>

(* ReportIncident.handleSubmit from the response of createIncident on: the *)
(* success toast and navigate('/dashboard'), or the failure toast (also    *)
(* from the catch block), then the finally block.                          *)
IncidentResponse(r, outcome) ==
  /\ r \in incidentReq /\ outcome \in ApiOutcomes
  /\ IF outcome = "unauthorized"
     THEN /\ r.authed
          /\ Unauthorized(reqs, logoutReq, profileReq, loginReq, otpReq)
     ELSE IF outcome = "ok"
     THEN /\ toast' = "Report Submitted!"
          /\ redirectedFrom' =
               IF Resolve("/dashboard") = "/dashboard" THEN None ELSE "/dashboard"
          /\ Go(Resolve("/dashboard"), FALSE, reqs, logoutReq, profileReq,
                loginReq, otpReq, incidentReq \ {r})
          /\ UNCHANGED <<storeVars, navTimers>>
     ELSE /\ toast' = "Submission Failed"
          /\ incidentReq' = incidentReq \ {r}
          /\ reportIsSubmitting' = IF r.stale THEN reportIsSubmitting ELSE FALSE
          /\ UNCHANGED <<storeVars, pathname, settingsVars, draftVars,
                         redirectedFrom, navTimers, pageVars, formVars,
                         pendingVars, images, coords, locationDraft,
                         locationDialogOpen, isLocating, gpsReq>>
  /\ UNCHANGED <<srvTickets, srvAuthVars, officialVariant, roleVars, srvSettingsVars>>

(* ======================= role normalisers ============================== *)

(* The officialRole of the stored user as text: a sequence of pieces, each *)
(* a word or a separator.  "s" supervisor, "S" the same word in capitals,  *)
(* "f" field, "i" inspector, "w" worker, "d" department, "x" other text.   *)
RoleAlphabet == {"s", "S", "f", "i", "w", "d", "-", "_", " ", "x"}
MaxRoleLen == 3

RoleTexts == UNION {[1..k -> RoleAlphabet] : k \in 0..MaxRoleLen}

(* user?.officialRole: absent, or a text.                                  *)
StoredRoles ==
  {[has |-> FALSE, text |-> <<>>]} \cup {[has |-> TRUE, text |-> s] : s \in RoleTexts}

RECURSIVE trimStart(_)
trimStart(s) == IF s # <<>> /\ Head(s) = " " THEN trimStart(Tail(s)) ELSE s

RECURSIVE trimEnd(_)
trimEnd(s) ==
  IF s # <<>> /\ s[Len(s)] = " " THEN trimEnd(SubSeq(s, 1, Len(s) - 1)) ELSE s

trim(s) == trimEnd(trimStart(s))

toLowerCase(s) == [k \in 1..Len(s) |-> IF s[k] = "S" THEN "s" ELSE s[k]]

(* String.prototype.replace with a string pattern: the first match only.   *)
replace(s, a, b) ==
  LET hits == {k \in 1..Len(s) : s[k] = a}
  IN IF hits = {} THEN s
     ELSE [s EXCEPT ![CHOOSE k \in hits : \A m \in hits : k <= m] = b]

(* (value || '').trim().toLowerCase().replace('-', '_')                    *)
normalized(value) ==
  replace(toLowerCase(trim(IF value.has THEN value.text ELSE <<>>)), "-", "_")

(* The role name a normalised text spells, if any.                         *)
RoleWord(s) ==
  CASE s = <<"s">> -> "supervisor"
    [] s = <<"f", "_", "i">> -> "field_inspector"
    [] s = <<"w">> -> "worker"
    [] s = <<"d">> -> "department"
    [] OTHER -> "other"

(* OfficialDashboardLayout.toOfficialRole, after the normalisation.        *)
toOfficialRole(value) ==
  IF value = "supervisor" THEN "supervisor"
  ELSE IF value = "field_inspector" THEN "field_inspector"
  ELSE IF value = "worker" THEN "worker"
  ELSE "department"

(* navItems holds the Team entry.                                          *)
teamNavShown == layoutRole = "department"

isDepartment == teamRole.has /\ RoleWord(teamRole.text) = "department"

outsideRoles ==
  <<storeVars, pathname, settingsVars, draftVars, reportVars, redirectedFrom,
    toast, navTimers, srvTickets, pageVars, formVars, pendingVars,
    srvAuthVars, officialVariant, srvSettingsVars>>

(* OfficialDashboard renders: role = toRole(user?.officialRole).           *)
RenderDashboard ==
  /\ dashboardRole' = toRole(RoleWord(normalized(storedOfficialRole)))
  /\ UNCHANGED <<outsideRoles, storedOfficialRole, layoutRole, teamRole>>

(* OfficialDashboardLayout renders.                                        *)
RenderLayout ==
  /\ layoutRole' = toOfficialRole(RoleWord(normalized(storedOfficialRole)))
  /\ UNCHANGED <<outsideRoles, storedOfficialRole, dashboardRole, teamRole>>

(* OfficialTeam renders: its toOfficialRole returns the normalised text.   *)
RenderTeam ==
  /\ teamRole' = [has |-> TRUE, text |-> normalized(storedOfficialRole)]
  /\ UNCHANGED <<outsideRoles, storedOfficialRole, dashboardRole, layoutRole>>

(* An official is signed in; the stored user carries any officialRole.     *)
RoleInit ==
  /\ user = "dept"
  /\ token = user
  /\ pathname = "/official/dashboard"
  /\ redirectedFrom = None
  /\ toast = None
  /\ navTimers = {}
  /\ srvTickets = NoTickets
  /\ tickets = NoTickets
  /\ statusSubmittingId = None
  /\ assigningTicketId = None
  /\ progressSubmittingId = None
  /\ selectedWorkerByTicket = NoSelection
  /\ reqs = {} /\ logoutReq = {} /\ profileReq = {}
  /\ loginReq = {} /\ otpReq = {}
  /\ officialVariant = "role"
  /\ selectedOfficialRole = "department"
  /\ loginRole = "official"
  /\ isSubmitting = FALSE
  /\ otpChallengeId = 0
  /\ isVerifyingOtp = FALSE
  /\ chalAcct = [c \in ChallengeIds |-> None]
  /\ chalValid = {}
  /\ SettingsClosed
  /\ NoReport
  /\ NoSettingsChallenges
  /\ srvTwoFactor = FALSE
  /\ storedOfficialRole \in StoredRoles
  /\ dashboardRole = None
  /\ layoutRole = None
  /\ teamRole = [has |-> FALSE, text |-> <<>>]

RoleNext == RenderDashboard \/ RenderLayout \/ RenderTeam

RoleSpec == RoleInit /\ [][RoleNext]_vars

(* ======================= incident report specification ================= *)

(* A citizen has opened the report page; the mount effect has asked the    *)
(* device for its position, unless the browser has no geolocation.         *)
ReportInit ==
  /\ user = "cit"
  /\ token = user
  /\ pathname = "/dashboard/report"
  /\ redirectedFrom = None
  /\ toast = None
  /\ navTimers = {}
  /\ srvTickets = NoTickets
  /\ tickets = NoTickets
  /\ statusSubmittingId = None
  /\ assigningTicketId = None
  /\ progressSubmittingId = None
  /\ selectedWorkerByTicket = NoSelection
  /\ reqs = {} /\ logoutReq = {} /\ profileReq = {}
  /\ loginReq = {} /\ otpReq = {}
  /\ officialVariant = "role"
  /\ selectedOfficialRole = "department"
  /\ loginRole = "official"
  /\ isSubmitting = FALSE
  /\ otpChallengeId = 0
  /\ isVerifyingOtp = FALSE
  /\ chalAcct = [c \in ChallengeIds |-> None]
  /\ chalValid = {}
  /\ SettingsClosed
  /\ NoRoleRendered
  /\ NoSettingsChallenges
  /\ srvTwoFactor = FALSE
  /\ images = 0
  /\ coords = None
  /\ locationDraft = None
  /\ locationDialogOpen = FALSE
  /\ reportIsSubmitting = FALSE
  /\ incidentReq = {}
  /\ \/ isLocating = FALSE /\ gpsReq = {}
     \/ isLocating = TRUE /\ gpsReq = {[target |-> "mount", stale |-> FALSE]}

ReportNext ==
  \/ \E n \in 1..2 : handleImageUpload(n)
  \/ removeImage
  \/ \E tg \in {"page", "dialog"}, sup \in BOOLEAN : fetchGpsLocation(tg, sup)
  \/ \E g \in gpsReq, ok \in BOOLEAN : GpsResponse(g, ok)
  \/ openLocationDialog
  \/ updateDraftFromMap
  \/ closeLocationDialog
  \/ saveLocationFromDialog
  \/ reportHandleSubmit
  \/ \E r \in incidentReq, o \in ApiOutcomes : IncidentResponse(r, o)
  \/ Navigate("/dashboard")

ReportSpec == ReportInit /\ [][ReportNext]_vars

(* ======================= settings specification ======================== *)

(* An official is signed in on the dashboard, whose layout holds the       *)
(* closed SettingsModal.                                                   *)
SettingsInit ==
  /\ user = "dept"
  /\ token = user
  /\ pathname = "/official/dashboard"
  /\ redirectedFrom = None
  /\ toast = None
  /\ navTimers = {}
  /\ srvTickets = NoTickets
  /\ tickets = NoTickets
  /\ statusSubmittingId = None
  /\ assigningTicketId = None
  /\ progressSubmittingId = None
  /\ selectedWorkerByTicket = NoSelection
  /\ reqs = {} /\ logoutReq = {} /\ profileReq = {}
  /\ loginReq = {} /\ otpReq = {}
  /\ officialVariant = "role"
  /\ selectedOfficialRole = "department"
  /\ loginRole = "official"
  /\ isSubmitting = FALSE
  /\ otpChallengeId = 0
  /\ isVerifyingOtp = FALSE
  /\ chalAcct = [c \in ChallengeIds |-> None]
  /\ chalValid = {}
  /\ SettingsClosed
  /\ NoReport
  /\ NoRoleRendered
  /\ NoSettingsChallenges
  /\ srvTwoFactor = FALSE

SettingsNext ==
  \/ \E b \in BOOLEAN : OpenSettings(b)
  \/ handleClose
  \/ \E r \in profileReq, o \in ApiOutcomes : ProfileResponse(r, o)
  \/ \E v \in {"pw1"} : setNewPassword(v)
  \/ \E v \in {"pw1"} : setConfirmPassword(v)
  \/ \E ok \in BOOLEAN : requestPasswordOtp(ok)
  \/ \E r \in settingsReq, o \in ApiOutcomes : PasswordOtpResponse(r, o)
  \/ \E entered \in BOOLEAN : confirmPasswordChange(entered)
  \/ \E r \in settingsReq, o \in ApiOutcomes : ConfirmPasswordResponse(r, o)
  \/ requestTwoFactorOtp
  \/ \E r \in settingsReq, o \in ApiOutcomes : TwoFactorOtpResponse(r, o)
  \/ \E entered \in BOOLEAN : confirmTwoFactor(entered)
  \/ \E r \in settingsReq, o \in ApiOutcomes : ConfirmTwoFactorResponse(r, o)
  \/ CancelTwoFactor
  \/ \E path \in {"/official/dashboard", "/official/tickets"} : Navigate(path)

SettingsSpec == SettingsInit /\ [][SettingsNext]_vars

(* ======================= password change =============================== *)

(* The official types in the password section, asks for the OTP and       *)
(* confirms; the inputs stay editable throughout.                          *)
PasswordNext ==
  \/ \E b \in BOOLEAN : OpenSettings(b)
  \/ handleClose
  \/ \E r \in profileReq, o \in ApiOutcomes : ProfileResponse(r, o)
  \/ \E v \in {"", "pw1", "pw2"} : setNewPassword(v)
  \/ \E v \in {"", "pw1", "pw2"} : setConfirmPassword(v)
  \/ \E ok \in BOOLEAN : requestPasswordOtp(ok)
  \/ \E r \in settingsReq, o \in ApiOutcomes : PasswordOtpResponse(r, o)
  \/ \E entered \in BOOLEAN : confirmPasswordChange(entered)
  \/ \E r \in settingsReq, o \in ApiOutcomes : ConfirmPasswordResponse(r, o)

PasswordSpec == SettingsInit /\ [][PasswordNext]_vars

(* ======================= settings and logout =========================== *)

(* The signed-in official opens the settings, may change the 2FA setting,  *)
(* and signs out from the layout while requests of the modal are pending.  *)
SettingsLogoutNext ==
  \/ \E b \in BOOLEAN : OpenSettings(b)
  \/ handleClose
  \/ \E r \in profileReq, o \in ApiOutcomes : ProfileResponse(r, o)
  \/ requestTwoFactorOtp
  \/ \E r \in settingsReq, o \in ApiOutcomes : TwoFactorOtpResponse(r, o)
  \/ \E entered \in BOOLEAN : confirmTwoFactor(entered)
  \/ \E r \in settingsReq, o \in ApiOutcomes : ConfirmTwoFactorResponse(r, o)
  \/ handleLogout
  \/ \E r \in logoutReq, o \in ApiOutcomes : LogoutResponse(r, o)

SettingsLogoutSpec == SettingsInit /\ [][SettingsLogoutNext]_vars

(* ======================= session specification ========================= *)

Init ==
  /\ token = None /\ user = None
  /\ pathname \in {"/login", "/official/login"}
  /\ redirectedFrom = None
  /\ toast = None
  /\ navTimers = {}
  /\ srvTickets = NoTickets
  /\ tickets = NoTickets
  /\ statusSubmittingId = None
  /\ assigningTicketId = None
  /\ progressSubmittingId = None
  /\ selectedWorkerByTicket = NoSelection
  /\ reqs = {} /\ logoutReq = {} /\ profileReq = {}
  /\ loginReq = {} /\ otpReq = {}
  /\ officialVariant \in {"role", "type"}
  /\ selectedOfficialRole = "department"
  /\ loginRole = "official"
  /\ isSubmitting = FALSE
  /\ otpChallengeId = 0
  /\ isVerifyingOtp = FALSE
  /\ chalAcct = [c \in ChallengeIds |-> None]
  /\ chalValid = {}
  /\ SettingsClosed
  /\ NoReport
  /\ NoRoleRendered
  /\ NoSettingsChallenges
  /\ srvTwoFactor = FALSE

Next ==
  \/ \E r \in {"department", "worker"} : setSelectedOfficialRole(r)
  \/ \E t \in {"official", "head_supervisor"} : setLoginRole(t)
  \/ \E a \in LoginAccounts, cap \in BOOLEAN : handleSubmit(a, cap)
  \/ \E q \in loginReq, k \in {"session", "challenge", "fail", "unauthorized", "throw"} :
        LoginResponse(q, k)
  \/ \E entered \in BOOLEAN, codeOk \in BOOLEAN : handleVerifyOtp(entered, codeOk)
  \/ \E q \in otpReq, o \in ApiOutcomes : VerifyOtpResponse(q, o)
  \/ BackToLogin
  \/ \E c \in ChallengeIds : ExpireChallenge(c)
  \/ \E path \in Paths \ {"/official/tickets"} : Navigate(path)
  \/ \E dest \in Paths : TimerFires(dest)
  \/ handleLogout
  \/ \E r \in logoutReq, o \in ApiOutcomes : LogoutResponse(r, o)

Spec == Init /\ [][Next]_vars

(* ======================= ticket lifecycle specification ================ *)

WorkerSets == SUBSET Workers

TicketStates ==
  [status : Statuses, reopened : BOOLEAN, assignees : WorkerSets]

(* An official is signed in and lands on the dashboard; the backend        *)
(* holds ticket T1 in any state, and the official works on T1.             *)
TicketInit ==
  /\ user \in OfficialAccounts
  /\ token = user
  /\ pathname = "/official/dashboard"
  /\ redirectedFrom = None
  /\ toast = None
  /\ navTimers = {}
  /\ srvTickets \in {f \in [Tickets -> TicketStates] :
                        f["T2"] = BlankTicket /\ f["T1"].assignees \subseteq {"W1"}}
  /\ tickets = srvTickets
  /\ statusSubmittingId = None
  /\ assigningTicketId = None
  /\ progressSubmittingId = None
  /\ selectedWorkerByTicket = NoSelection
  /\ reqs = {} /\ logoutReq = {} /\ profileReq = {}
  /\ loginReq = {} /\ otpReq = {}
  /\ officialVariant = "role"
  /\ selectedOfficialRole = "department"
  /\ loginRole = "official"
  /\ isSubmitting = FALSE
  /\ otpChallengeId = 0
  /\ isVerifyingOtp = FALSE
  /\ chalAcct = [c \in ChallengeIds |-> None]
  /\ chalValid = {}
  /\ SettingsClosed
  /\ NoReport
  /\ NoRoleRendered
  /\ NoSettingsChallenges
  /\ srvTwoFactor = FALSE

TicketNext ==
  \/ \E t \in {"T1"}, st \in {"resolved", "open", "verified"} :
        handleStatusChange(t, st)
  \/ \E r \in reqs, o \in ApiOutcomes : StatusResponse(r, o)
  \/ \E r \in reqs, o \in ApiOutcomes : RefetchDone(r, o)
  \/ \E t \in {"T1"}, w \in {"W1"} : ToggleWorker(t, w)
  \/ \E t \in {"T1"} : handleAssignWorker(t)
  \/ \E r \in reqs, o \in ApiOutcomes : AssignResponse(r, o)
  \/ \E t \in {"T1"}, ok \in BOOLEAN : handleProgressUpdate(t, ok)
  \/ \E r \in reqs, o \in ApiOutcomes : ProgressResponse(r, o)
  \/ \E path \in {"/official/dashboard", "/official/tickets"} : Navigate(path)

TicketSpec == TicketInit /\ [][TicketNext]_vars

(* ======================= overlapping ticket actions ==================== *)

(* A department or supervisor official is on the tickets page with two     *)
(* open tickets that have a worker, and acts on both.                      *)
OverlapInit ==
  /\ user \in {"dept", "sup"}
  /\ token = user
  /\ pathname = "/official/tickets"
  /\ redirectedFrom = None
  /\ toast = None
  /\ navTimers = {}
  /\ srvTickets = [t \in Tickets |->
                     [status |-> "open", reopened |-> FALSE, assignees |-> Workers]]
  /\ tickets = srvTickets
  /\ statusSubmittingId = None
  /\ assigningTicketId = None
  /\ progressSubmittingId = None
  /\ selectedWorkerByTicket = NoSelection
  /\ reqs = {} /\ logoutReq = {} /\ profileReq = {}
  /\ loginReq = {} /\ otpReq = {}
  /\ officialVariant = "role"
  /\ selectedOfficialRole = "department"
  /\ loginRole = "official"
  /\ isSubmitting = FALSE
  /\ otpChallengeId = 0
  /\ isVerifyingOtp = FALSE
  /\ chalAcct = [c \in ChallengeIds |-> None]
  /\ chalValid = {}
  /\ SettingsClosed
  /\ NoReport
  /\ NoRoleRendered
  /\ NoSettingsChallenges
  /\ srvTwoFactor = FALSE

OverlapNext ==
  \/ \E t \in Tickets, st \in {"resolved", "open", "verified"} :
        handleStatusChange(t, st)
  \/ \E r \in reqs, o \in ApiOutcomes : StatusResponse(r, o)
  \/ \E r \in reqs, o \in ApiOutcomes : RefetchDone(r, o)
  \/ \E t \in Tickets : handleAssignWorker(t)
  \/ \E r \in reqs, o \in ApiOutcomes : AssignResponse(r, o)

OverlapSpec == OverlapInit /\ [][OverlapNext]_vars

(* ======================= two officials, one backend ==================== *)

(* A status change sent from another official's session (account a) and    *)
(* accepted by the backend; this client sees it at its next fetch.         *)
OtherOfficial(a, t, status) ==
  /\ a # user
  /\ TableAllows(ServerRole(a), ActionOfStatus(status), srvTickets[t])
  /\ srvTickets' = [srvTickets EXCEPT ![t] =
         ServerUpdateStatus(ServerRole(a), status, @)]
  /\ UNCHANGED <<storeVars, pathname, settingsVars, draftVars, reportVars, redirectedFrom, toast,
                 navTimers, pageVars, formVars, pendingVars, srvAuthVars,
                 officialVariant, roleVars, srvSettingsVars>>

(* The supervisor or department is on the tickets page; the backend holds  *)
(* T1 open with nobody assigned and T2 resolved.                           *)
ScenarioInit ==
  /\ user \in {"dept", "sup"}
  /\ token = user
  /\ pathname = "/official/tickets"
  /\ redirectedFrom = None
  /\ toast = None
  /\ navTimers = {}
  /\ srvTickets = [t \in Tickets |->
                     IF t = "T1" THEN BlankTicket
                     ELSE [status |-> "resolved", reopened |-> FALSE,
                           assignees |-> {"W1"}]]
  /\ tickets = srvTickets
  /\ statusSubmittingId = None
  /\ assigningTicketId = None
  /\ progressSubmittingId = None
  /\ selectedWorkerByTicket = NoSelection
  /\ reqs = {} /\ logoutReq = {} /\ profileReq = {}
  /\ loginReq = {} /\ otpReq = {}
  /\ officialVariant = "role"
  /\ selectedOfficialRole = "department"
  /\ loginRole = "official"
  /\ isSubmitting = FALSE
  /\ otpChallengeId = 0
  /\ isVerifyingOtp = FALSE
  /\ chalAcct = [c \in ChallengeIds |-> None]
  /\ chalValid = {}
  /\ SettingsClosed
  /\ NoReport
  /\ NoRoleRendered
  /\ NoSettingsChallenges
  /\ srvTwoFactor = FALSE

ScenarioNext ==
  \/ handleStatusChange("T1", "verified")
  \/ \E st \in {"resolved", "open"} : handleStatusChange("T2", st)
  \/ \E r \in reqs, o \in ApiOutcomes : StatusResponse(r, o)
  \/ \E r \in reqs, o \in ApiOutcomes : RefetchDone(r, o)
  \/ \E w \in Workers : ToggleWorker("T1", w)
  \/ handleAssignWorker("T1")
  \/ \E r \in reqs, o \in ApiOutcomes : AssignResponse(r, o)
  \/ \E a \in {"dept", "sup"}, st \in {"resolved", "open", "verified"} :
        OtherOfficial(a, "T2", st)
  \/ \E path \in {"/official/dashboard", "/official/tickets"} : Navigate(path)

ScenarioSpec == ScenarioInit /\ [][ScenarioNext]_vars

(* ======================= busy flags ==================================== *)

(* An official has the tickets page open on ticket T1, open or resolved,   *)
(* with a worker.                                                          *)
OnTicketsInit ==
  /\ user \in OfficialAccounts
  /\ token = user
  /\ pathname = "/official/tickets"
  /\ redirectedFrom = None
  /\ toast = None
  /\ navTimers = {}
  /\ srvTickets \in {f \in [Tickets -> TicketStates] :
                        /\ f["T2"] = BlankTicket
                        /\ f["T1"].status \in {"open", "resolved"}
                        /\ f["T1"].assignees = {"W1"}}
  /\ tickets = srvTickets
  /\ statusSubmittingId = None
  /\ assigningTicketId = None
  /\ progressSubmittingId = None
  /\ selectedWorkerByTicket = NoSelection
  /\ reqs = {} /\ logoutReq = {} /\ profileReq = {}
  /\ loginReq = {} /\ otpReq = {}
  /\ officialVariant = "role"
  /\ selectedOfficialRole = "department"
  /\ loginRole = "official"
  /\ isSubmitting = FALSE
  /\ otpChallengeId = 0
  /\ isVerifyingOtp = FALSE
  /\ chalAcct = [c \in ChallengeIds |-> None]
  /\ chalValid = {}
  /\ SettingsClosed
  /\ NoReport
  /\ NoRoleRendered
  /\ NoSettingsChallenges
  /\ srvTwoFactor = FALSE

(* A visitor on a login page, an official on the dashboard with the        *)
(* settings, an official on the tickets page, a citizen on the report      *)
(* page.                                                                   *)
BusyInit == Init \/ SettingsInit \/ OnTicketsInit \/ ReportInit

(* Every handler that sets a busy flag, with what it needs to be called,   *)
(* and the completion of its requests.                                     *)
BusyNext ==
  \/ \E a \in LoginAccounts, cap \in BOOLEAN : handleSubmit(a, cap)
  \/ \E q \in loginReq, k \in {"session", "challenge", "fail", "unauthorized", "throw"} :
        LoginResponse(q, k)
  \/ \E entered \in BOOLEAN, codeOk \in BOOLEAN : handleVerifyOtp(entered, codeOk)
  \/ \E q \in otpReq, o \in ApiOutcomes : VerifyOtpResponse(q, o)
  \/ \E r \in logoutReq, o \in ApiOutcomes : LogoutResponse(r, o)
  \/ \E t \in {"T1"}, st \in {"resolved", "open", "verified"} :
        handleStatusChange(t, st)
  \/ \E r \in reqs, o \in ApiOutcomes : StatusResponse(r, o)
  \/ \E r \in reqs, o \in ApiOutcomes : RefetchDone(r, o)
  \/ \E t \in {"T1"} : handleAssignWorker(t)
  \/ \E r \in reqs, o \in ApiOutcomes : AssignResponse(r, o)
  \/ \E t \in {"T1"}, ok \in BOOLEAN : handleProgressUpdate(t, ok)
  \/ \E r \in reqs, o \in ApiOutcomes : ProgressResponse(r, o)
  \/ \E b \in BOOLEAN : isReadOnlyDashboard /\ OpenSettings(b)
  \/ \E r \in profileReq, o \in ApiOutcomes : ProfileResponse(r, o)
  \/ \E v \in {"pw1"} : setNewPassword(v)
  \/ \E v \in {"pw1"} : setConfirmPassword(v)
  \/ \E ok \in BOOLEAN : requestPasswordOtp(ok)
  \/ \E r \in settingsReq, o \in ApiOutcomes : PasswordOtpResponse(r, o)
  \/ \E entered \in BOOLEAN : confirmPasswordChange(entered)
  \/ \E r \in settingsReq, o \in ApiOutcomes : ConfirmPasswordResponse(r, o)
  \/ requestTwoFactorOtp
  \/ \E r \in settingsReq, o \in ApiOutcomes : TwoFactorOtpResponse(r, o)
  \/ \E entered \in BOOLEAN : confirmTwoFactor(entered)
  \/ \E r \in settingsReq, o \in ApiOutcomes : ConfirmTwoFactorResponse(r, o)
  \/ \E n \in 1..2 : handleImageUpload(n)
  \/ openLocationDialog
  \/ updateDraftFromMap
  \/ saveLocationFromDialog
  \/ reportHandleSubmit
  \/ \E r \in incidentReq, o \in ApiOutcomes : IncidentResponse(r, o)

(* Every request sent is answered and its continuation runs: the response  *)
(* of each kind of pending request is eventually handled.                  *)
ResponsesArrive ==
  /\ WF_vars(\E q \in loginReq, k \in {"session", "challenge", "fail", "unauthorized", "throw"} :
               LoginResponse(q, k))
  /\ WF_vars(\E q \in otpReq, o \in ApiOutcomes : VerifyOtpResponse(q, o))
  /\ WF_vars(\E r \in logoutReq, o \in ApiOutcomes : LogoutResponse(r, o))
  /\ WF_vars(\E r \in reqs, o \in ApiOutcomes : StatusResponse(r, o))
  /\ WF_vars(\E r \in reqs, o \in ApiOutcomes : AssignResponse(r, o))
  /\ WF_vars(\E r \in reqs, o \in ApiOutcomes : ProgressResponse(r, o))
  /\ \A k \in {"status", "assign", "progress"} :
       WF_vars(\E r \in reqs, o \in ApiOutcomes : r.kind = k /\ RefetchDone(r, o))
  /\ WF_vars(\E r \in settingsReq, o \in ApiOutcomes : PasswordOtpResponse(r, o))
  /\ WF_vars(\E r \in settingsReq, o \in ApiOutcomes : ConfirmPasswordResponse(r, o))
  /\ WF_vars(\E r \in settingsReq, o \in ApiOutcomes : TwoFactorOtpResponse(r, o))
  /\ WF_vars(\E r \in settingsReq, o \in ApiOutcomes : ConfirmTwoFactorResponse(r, o))
  /\ WF_vars(\E r \in incidentReq, o \in ApiOutcomes : IncidentResponse(r, o))

BusySpec == BusyInit /\ [][BusyNext]_vars /\ ResponsesArrive

(* ======================= claims on the ticket lifecycle ================ *)

Viewing == user # None /\ token # None /\ isTicketsPage

(* C1: for every official role, ticket status, reopened flag and           *)
(* has-assigned-worker flag, the actions the tickets page offers for the   *)
(* ticket are exactly the actions the section 4.3 table allows.            *)
C1_SupervisorVerifiesReopened(r, tk) ==
  /\ r = "supervisor" /\ isReopenedCase(tk) /\ hasAssignedWorker(tk)
  /\ tk.status \notin {"resolved", "verified"}

C1_OnlyDivergence ==
  Viewing =>
    \A t \in Tickets :
      IF C1_SupervisorVerifiesReopened(role, tickets[t])
      THEN OfferedActions(isTicketsPage, role, tickets[t]) =
             TableActions(role, tickets[t]) \cup {"verify"}
      ELSE OfferedActions(isTicketsPage, role, tickets[t]) =
             TableActions(role, tickets[t])

C1_OfferedIsTable ==
  Viewing =>
    \A t \in Tickets :
      OfferedActions(isTicketsPage, role, tickets[t]) = TableActions(role, tickets[t])

(* C2: a ticket whose status is verified or resolved never offers worker   *)
(* assignment to a supervisor; if assignment is offered on such a ticket   *)
(* at all, the viewer is the department and the ticket is reopened.        *)
C2_LockedTicketNoAssign ==
  \A t \in Tickets :
    (user # None /\ pageMounted /\ tickets[t].status \in {"verified", "resolved"}) =>
      /\ role = "supervisor" =>
            "assign" \notin OfferedActions(isTicketsPage, role, tickets[t])
      /\ "assign" \in OfferedActions(isTicketsPage, role, tickets[t]) =>
            (role = "department" /\ isReopenedCase(tickets[t]))

C2_Witness ==
  /\ Viewing /\ role = "supervisor"
  /\ \E t \in Tickets :
       /\ tickets[t].status \in {"verified", "resolved"}
       /\ showSupervisorActions(isTicketsPage, role, tickets[t])
       /\ isSupervisorLockedTicket(role, tickets[t])

(* C3: a reopen request is issued only for a ticket shown as resolved and  *)
(* only by the department; every reopen the backend accepts is applied to  *)
(* a resolved ticket and leaves it open with reopen metadata; the          *)
(* handler's re-fetch then shows the ticket as the backend holds it.       *)
C3_ReopenStep ==
  /\ \A t \in Tickets :
       handleStatusChange(t, "open") =>
         (tickets[t].status = "resolved" /\ role = "department")
  /\ \A r \in reqs :
       (r.status = "open" /\ StatusResponse(r, "ok")) =>
         /\ ServerRole(r.actor) = "department"
         /\ srvTickets[r.ticket].status = "resolved"
         /\ srvTickets'[r.ticket].status = "open"
         /\ srvTickets'[r.ticket].reopened
  /\ \A r \in reqs :
       (r.kind = "status" /\ r.status = "open" /\ ~r.stale
          /\ RefetchDone(r, "ok")) =>
         tickets'[r.ticket] = srvTickets[r.ticket]

C3_ReopenOnlyFromResolved == [][C3_ReopenStep]_vars

(* C3 as stated: what the handler's re-fetch shows after a successful      *)
(* reopen is a ticket with status open and reopen metadata.                *)
C3_RefetchedStep ==
  \A r \in reqs :
    (r.kind = "status" /\ r.status = "open" /\ ~r.stale
       /\ RefetchDone(r, "ok")) =>
      /\ tickets'[r.ticket].status = "open"
      /\ tickets'[r.ticket].reopened

C3_RefetchedTicketIsOpen == [][C3_ReopenStep /\ C3_RefetchedStep]_vars

C3_Witness ==
  \E r \in reqs :
    /\ r.kind = "status" /\ r.status = "open" /\ r.phase = "refetch"
    /\ srvTickets[r.ticket].status = "open"
    /\ srvTickets[r.ticket].reopened

FailureTitle(kind) ==
  CASE kind = "status" -> "Action Failed"
    [] kind = "assign" -> "Assignment Failed"
    [] OTHER -> "Update Failed"

TicketCallResponse(r, o) ==
  StatusResponse(r, o) \/ AssignResponse(r, o) \/ ProgressResponse(r, o)

(* C14: a status change, assign or progress update that fails leaves the   *)
(* cached ticket list and the backend's tickets as they were, starts no    *)
(* re-fetch, and for a failure response shows the handler's failure toast  *)
(* (which carries the server's error); the cached list changes only by a   *)
(* fetch of the backend's tickets (the re-fetch after a confirmed          *)
(* transition, or the fetch of a page mount), never at the start of a      *)
(* request and never to a value the backend does not hold.                 *)
C14_FailureStep ==
  /\ \A r \in reqs, o \in {"fail", "throw"} :
       (r.phase = "call" /\ TicketCallResponse(r, o)) =>
         /\ tickets' = tickets
         /\ srvTickets' = srvTickets
         /\ reqs' = reqs \ {r}
         /\ o = "fail" => toast' = FailureTitle(r.kind)
  /\ \A r \in reqs :
       (r.phase = "call" /\ TicketCallResponse(r, "ok")) => tickets' = tickets
  /\ tickets' # tickets =>
       /\ \/ \E r \in reqs : ~r.stale /\ RefetchDone(r, "ok")
          \/ pathname' # pathname
          \/ redirectedFrom' = "401"
       /\ tickets' = IF IsOfficialPage(pathname') THEN srvTickets' ELSE NoTickets

Busy(kind, t) ==
  CASE kind = "status" -> statusSubmittingId = t
    [] kind = "assign" -> assigningTicketId = t
    [] OTHER -> progressSubmittingId = t

(* C15: a successful transition is followed by the handler's re-fetch, and *)
(* the busy flag of the action stays set until that re-fetch has           *)
(* completed: while a request of the mounted page is in flight (its call   *)
(* or its re-fetch), its busy flag is set for its ticket; the cached list  *)
(* changes only by a fetch.                                                *)
C15_RefetchStep ==
  /\ \A r \in reqs :
       (r.phase = "call" /\ TicketCallResponse(r, "ok")) =>
         /\ [r EXCEPT !.phase = "refetch"] \in reqs'
         /\ tickets' = tickets
  /\ \A r \in reqs' : ~r.stale => Busy(r.kind, r.ticket)'
  /\ tickets' # tickets =>
       \/ \E r \in reqs : ~r.stale /\ RefetchDone(r, "ok") /\ tickets' = srvTickets
       \/ pathname' # pathname
       \/ redirectedFrom' = "401"

C15_BusyUntilRefetched == [][C15_RefetchStep]_vars

(* C16: for a ticket reopened by department, the tickets page offers a     *)
(* supervisor neither resolve nor verify, and offers verify to nobody but  *)
(* department; the backend clears the reopened mark when department        *)
(* resolves the ticket again.                                              *)
C16_ReopenedExemptFromSupervisor ==
  Viewing =>
    \A t \in Tickets :
      isReopenedCase(tickets[t]) =>
        /\ role = "supervisor" =>
             OfferedActions(isTicketsPage, role, tickets[t])
               \cap {"resolve", "verify"} = {}
        /\ "verify" \in OfferedActions(isTicketsPage, role, tickets[t]) =>
             role = "department"

(* C17: a supervisor's accepted assign leaves the status as it was and     *)
(* stores the submitted workers, and is never accepted for a verified or   *)
(* resolved ticket; a supervisor's accepted verify makes the ticket        *)
(* verified; and once the supervisor's page shows the ticket verified it   *)
(* is locked: assign is no longer offered.                                 *)
C17_ScenarioStep ==
  /\ \A r \in reqs :
       (/\ r.kind = "assign" /\ r.phase = "call"
        /\ ServerRole(r.actor) = "supervisor"
        /\ AssignResponse(r, "ok")) =>
         /\ srvTickets[r.ticket].status \notin {"verified", "resolved"}
         /\ srvTickets'[r.ticket] =
              [srvTickets[r.ticket] EXCEPT !.assignees = r.workerIds]
  /\ \A r \in reqs :
       (/\ r.kind = "status" /\ r.phase = "call" /\ r.status = "verified"
        /\ ServerRole(r.actor) = "supervisor"
        /\ StatusResponse(r, "ok")) =>
         /\ srvTickets[r.ticket].assignees # {}
         /\ srvTickets'[r.ticket] =
              [srvTickets[r.ticket] EXCEPT !.status = "verified"]
  /\ (Viewing /\ role = "supervisor") =>
       \A t \in Tickets :
         tickets[t].status = "verified" =>
           "assign" \notin OfferedActions(isTicketsPage, role, tickets[t])

C17_AssignVerifyLock == [][C17_ScenarioStep]_vars

(* The supervisor assigned W1 and W2 to T1 and verified it; an assign      *)
(* sent before the verification was answered after it and failed; the      *)
(* page shows T1 verified and locked.                                      *)
C17_Witness ==
  /\ Viewing /\ user = "sup"
  /\ srvTickets["T1"] = [status |-> "verified", reopened |-> FALSE,
                         assignees |-> {"W1", "W2"}]
  /\ tickets = srvTickets
  /\ toast = "Assignment Failed"
  /\ "assign" \notin OfferedActions(isTicketsPage, role, tickets["T1"])

(* C18: department's accepted reopen turns a resolved ticket into an open  *)
(* one marked reopened; while a ticket is marked reopened the supervisor's *)
(* page does not offer resolve and the backend accepts no resolve from a   *)
(* supervisor, so every step that resolves it is department's; and         *)
(* department's accepted resolve yields resolved with the mark cleared.    *)
C18_ScenarioStep ==
  /\ \A r \in reqs :
       (/\ r.kind = "status" /\ r.phase = "call" /\ r.status = "open"
        /\ ServerRole(r.actor) = "department"
        /\ StatusResponse(r, "ok")) =>
         /\ srvTickets[r.ticket].status = "resolved"
         /\ srvTickets'[r.ticket].status = "open"
         /\ srvTickets'[r.ticket].reopened
  /\ (Viewing /\ role = "supervisor") =>
       \A t \in Tickets :
         isReopenedCase(tickets[t]) =>
           "resolve" \notin OfferedActions(isTicketsPage, role, tickets[t])
  /\ \A t \in Tickets :
       (/\ srvTickets[t].reopened
        /\ srvTickets[t].status # "resolved"
        /\ srvTickets'[t].status = "resolved") =>
         /\ ~srvTickets'[t].reopened
         /\ \/ \E r \in reqs : /\ r.ticket = t
                                /\ ServerRole(r.actor) = "department"
                                /\ StatusResponse(r, "ok")
            \/ OtherOfficial("dept", t, "resolved")
  /\ \A r \in reqs :
       (/\ r.kind = "status" /\ r.phase = "call" /\ r.status = "resolved"
        /\ ServerRole(r.actor) = "department"
        /\ StatusResponse(r, "ok")) =>
         /\ srvTickets'[r.ticket].status = "resolved"
         /\ ~srvTickets'[r.ticket].reopened

C18_ReopenThenDepartmentResolves == [][C18_ScenarioStep]_vars

(* Department reopened T2 and its page shows T2 open and reopened; its     *)
(* resolve of T2 has been accepted, and the backend holds T2 resolved      *)
(* with the mark cleared.                                                  *)
C18_Witness ==
  /\ Viewing /\ user = "dept"
  /\ tickets["T2"].status = "open" /\ tickets["T2"].reopened
  /\ srvTickets["T2"].status = "resolved" /\ ~srvTickets["T2"].reopened
  /\ toast = "Status Updated"
  /\ \E r \in reqs : /\ r.kind = "status" /\ r.ticket = "T2"
                      /\ r.status = "resolved" /\ r.phase = "refetch"
                      /\ r.actor = "dept" /\ ~r.stale

C19_OfferedVerify ==
  Viewing =>
    \A t \in Tickets :
      "verify" \in OfferedActions(isTicketsPage, role, tickets[t]) =>
        /\ hasAssignedWorker(tickets[t])
        /\ tickets[t].status \notin {"resolved", "verified"}
        /\ \/ role = "supervisor"
           \/ role = "department" /\ isReopenedCase(tickets[t])

C19_VerifyStep ==
  /\ \A r \in reqs' \ reqs :
       (/\ r.kind = "status" /\ r.status = "verified"
        /\ r.phase = "call" /\ ~r.stale) =>
         /\ hasAssignedWorker(tickets[r.ticket])
         /\ "verify" \in OfferedActions(isTicketsPage, role, tickets[r.ticket])
  /\ \A t \in Tickets :
       (srvTickets[t].status # "verified"
          /\ srvTickets'[t].status = "verified") =>
         srvTickets[t].assignees # {}

(* C19: verify is offered only for a ticket with at least one assigned     *)
(* worker whose status is neither resolved nor verified, and only to a     *)
(* supervisor or to department on a reopened case; a verify request is     *)
(* sent only for such a ticket, and no ticket without an assigned worker   *)
(* becomes verified.                                                       *)
C19_VerifyNeedsWorker == []C19_OfferedVerify /\ [][C19_VerifyStep]_vars

(* Department verified a reopened ticket that has a worker: the request    *)
(* was accepted and is being refetched.                                    *)
C19_Witness ==
  /\ Viewing /\ role = "department"
  /\ isReopenedCase(tickets["T1"]) /\ hasAssignedWorker(tickets["T1"])
  /\ srvTickets["T1"].status = "verified"
  /\ \E r \in reqs : /\ r.kind = "status" /\ r.status = "verified"
                      /\ r.phase = "refetch" /\ ~r.stale

C20_ProgressStep ==
  /\ \A r \in reqs' \ reqs :
       (r.kind = "progress" /\ r.phase = "call" /\ ~r.stale) =>
         /\ role \in {"field_inspector", "worker"}
         /\ role = "worker" => hasAssignedWorker(tickets[r.ticket])
         /\ handleProgressUpdate(r.ticket, TRUE)
         /\ r.status = None
  /\ \A r \in reqs :
       (r.kind = "progress" /\ r.phase = "call"
          /\ ProgressResponse(r, "ok")) =>
         srvTickets' = srvTickets

(* C20: a progress update is sent only by a field inspector or worker,     *)
(* only with a trimmed text of at least 5 characters, and, by a worker,    *)
(* only for a ticket that has an assigned worker (a ticket nobody is       *)
(* assigned to is not assigned to the actor); the request carries no       *)
(* status and its acceptance changes no ticket's status.                   *)
C20_ProgressOnlyOnOwnTicket == [][C20_ProgressStep]_vars

(* C21: rejected is terminal: for a ticket shown as rejected the tickets   *)
(* page offers no role resolve, verify or reopen.                          *)
C21_RejectedIsTerminal ==
  Viewing =>
    \A t \in Tickets :
      tickets[t].status = "rejected" =>
        OfferedActions(isTicketsPage, role, tickets[t])
          \cap {"resolve", "verify", "reopen"} = {}

C23_ThrowStep ==
  \A r \in reqs :
    (r.phase = "call" /\ ~r.stale /\ TicketCallResponse(r, "throw")) =>
      toast' = FailureTitle(r.kind)

(* C23: a ticket request whose promise is rejected is caught by the        *)
(* handler that sent it and shown as that handler's failure toast.         *)
C23_RejectionCaught == [][C23_ThrowStep]_vars

(* C25: at most one status-change request per ticket is in flight: while   *)
(* an updateStatus call of the mounted page is pending for a ticket, the   *)
(* status buttons of that ticket are disabled (statusSubmittingId is the   *)
(* ticket), also while a status change on another ticket starts or ends,   *)
(* so no two pending updateStatus calls are for the same ticket.           *)
C25_PendingStatus(r) == r.kind = "status" /\ r.phase = "call" /\ ~r.stale

C25_OneStatusRequestPerTicket ==
  /\ \A r \in reqs : C25_PendingStatus(r) => statusSubmittingId = r.ticket
  /\ \A r1, r2 \in reqs :
       (C25_PendingStatus(r1) /\ C25_PendingStatus(r2)
          /\ r1.ticket = r2.ticket) => r1 = r2

(* C27: off the tickets page (in particular on /official/dashboard) no     *)
(* transition control is offered: for every role and every ticket the set  *)
(* of offered actions is empty, and no step taken there sends a ticket     *)
(* request.                                                                *)
C27_NothingOffered ==
  ~isTicketsPage =>
    \A r \in OfficialRoles, tk \in TicketStates :
      OfferedActions(isTicketsPage, r, tk) = {}

C27_NoRequestStep ==
  ~isTicketsPage => \A r \in reqs' \ reqs : ~(r.phase = "call" /\ ~r.stale)

C27_ReadOnlyDashboard == []C27_NothingOffered /\ [][C27_NoRequestStep]_vars

(* Department left the tickets page for the dashboard with a request       *)
(* pending: the ticket it could resolve there carries no control here.     *)
C27_Witness ==
  /\ isReadOnlyDashboard /\ user = "dept" /\ token = user
  /\ "resolve" \in OfferedActions(TRUE, role, tickets["T1"])
  /\ OfferedActions(isTicketsPage, role, tickets["T1"]) = {}
  /\ \E r \in reqs : r.stale

(* ======================= claims on login, OTP and the session ========== *)

(* The account does not belong to the role set of the official portal the  *)
(* request was sent from: the role portal asks for an official with the    *)
(* selected officialRole, the type portal for an official or head          *)
(* supervisor.                                                             *)
Mismatch(q, a) ==
  \/ q.portal = "role"
       /\ ~(userTypeOf(a) = "official" /\ officialRoleOf(a) = q.expRole)
  \/ q.portal = "type" /\ userTypeOf(a) \notin {"official", "head_supervisor"}

(* C4: a login through an official portal with an account outside the      *)
(* portal's role set leaves no session: the access-denied error is shown,  *)
(* and when the handler (password step or OTP step) has finished, token    *)
(* and user are absent.                                                    *)
C4_MismatchStep ==
  /\ \A q \in loginReq :
       (LoginResponse(q, "session") /\ Mismatch(q, q.acct)) =>
         /\ toast' = "Access Denied"
         /\ logoutReq' # logoutReq
  /\ \A q \in otpReq :
       (VerifyOtpResponse(q, "ok") /\ ServerVerify(q.cid, q.codeOk) = "ok"
          /\ Mismatch(q, chalAcct[q.cid])) =>
         /\ toast' = "Access Denied"
         /\ logoutReq' # logoutReq
  /\ \A r \in logoutReq, o \in ApiOutcomes :
       (r.origin \in {"submit", "verify"} /\ LogoutResponse(r, o)) =>
         (token' = None /\ user' = None)

C4_MismatchLeavesNoSession == [][C4_MismatchStep]_vars

(* C5: a verifyOtp whose challengeId is stale or foreign (not a challenge  *)
(* the backend still holds) never succeeds, and its response writes no     *)
(* token and no user.                                                      *)
C5_StaleStep ==
  \A q \in otpReq, o \in ApiOutcomes :
    (VerifyOtpResponse(q, o) /\ q.cid \notin chalValid) =>
      /\ o # "ok"
      /\ token' \in {token, None}
      /\ user' \in {user, None}

C5_StaleChallengeNoSession ==
  [][C5_StaleStep /\ \A c \in 0..(MaxChallenges + 1), k \in BOOLEAN :
                       c \notin chalValid => ServerVerify(c, k) = "fail"]_vars

C5_Witness ==
  /\ toast = "Verification Failed"
  /\ otpChallengeId # 0 /\ otpChallengeId \notin chalValid
  /\ otpReq = {}
  /\ token = None /\ user = None

(* C6: a login answered with an OTP challenge stores nothing; a session    *)
(* appears in storage only with a login response that carries a token or   *)
(* with a successful verifyOtp, and for a two-factor account only with a   *)
(* successful verifyOtp.                                                   *)
C6_StoreStep ==
  /\ \A q \in loginReq :
       LoginResponse(q, "challenge") => UNCHANGED storeVars
  /\ (token' # token /\ token' # None) =>
       \/ \E q \in loginReq : LoginResponse(q, "session") /\ token' = q.acct
       \/ \E q \in otpReq :
            /\ VerifyOtpResponse(q, "ok")
            /\ ServerVerify(q.cid, q.codeOk) = "ok"
  /\ (token' # token /\ token' # None /\ twoFactorEnabledOf(token')) =>
       \E q \in otpReq :
         /\ VerifyOtpResponse(q, "ok")
         /\ ServerVerify(q.cid, q.codeOk) = "ok"
         /\ user' = token'

C6_ChallengeStoresNothing == [][C6_StoreStep]_vars

C6_Witness ==
  /\ toast = "OTP Sent"
  /\ otpChallengeId # 0 /\ otpChallengeId \in chalValid
  /\ token = None /\ user = None

(* The state of the mounted login form, read off its flags.  Failed and    *)
(* Authenticated are the outcomes of a response; the form then rests at    *)
(* Idle (password step) or OtpRequired (OTP step).                         *)
LoginPhase ==
  CASE isVerifyingOtp -> "Verifying"
    [] isSubmitting -> "Submitting"
    [] otpChallengeId # 0 -> "OtpRequired"
    [] OTHER -> "Idle"

(* C11: a login attempt moves only Idle -> Submitting -> {Authenticated,   *)
(* OtpRequired, Failed} and OtpRequired -> Verifying -> {Authenticated,    *)
(* Failed}.  Submitting is entered only from Idle by handleSubmit,         *)
(* OtpRequired only by a challenge answer to a submitting form or by the   *)
(* end of a failed verification, Verifying only from OtpRequired by        *)
(* handleVerifyOtp; a session appears only with the response to a pending  *)
(* login (from Submitting) or verifyOtp (from Verifying) that the server   *)
(* answered with success; an attempt ends, and the form is back at Idle,   *)
(* only by an outcome, by Back to Login or by leaving the page.            *)
C11_AttemptStep ==
  /\ (LoginPhase' = "Submitting" /\ LoginPhase # "Submitting") =>
       /\ LoginPhase = "Idle"
       /\ \E a \in LoginAccounts : handleSubmit(a, TRUE)
  /\ (LoginPhase' = "Verifying" /\ LoginPhase # "Verifying") =>
       /\ LoginPhase = "OtpRequired"
       /\ \E k \in BOOLEAN : handleVerifyOtp(TRUE, k)
  /\ (LoginPhase' = "OtpRequired" /\ LoginPhase # "OtpRequired") =>
       \/ /\ LoginPhase = "Submitting"
          /\ \E q \in loginReq : ~q.stale /\ LoginResponse(q, "challenge")
          /\ toast' = "OTP Sent"
       \/ /\ LoginPhase = "Verifying"
          /\ token' \in {token, None}
          /\ otpChallengeId' = otpChallengeId
  /\ (LoginPhase' = "Idle" /\ LoginPhase = "OtpRequired") =>
       (BackToLogin \/ pathname' # pathname \/ redirectedFrom' = "401")
  /\ (token' # token /\ token' # None) =>
       \/ \E q \in loginReq :
            /\ LoginResponse(q, "session")
            /\ ~q.stale => LoginPhase = "Submitting"
       \/ \E q \in otpReq :
            /\ VerifyOtpResponse(q, "ok")
            /\ ServerVerify(q.cid, q.codeOk) = "ok"
            /\ ~q.stale => LoginPhase = "Verifying"

C12_FailedStep ==
  \A q \in otpReq, o \in {"fail", "throw"} :
    (VerifyOtpResponse(q, o) /\ ~q.stale) =>
      /\ o = "fail" => toast' = "Verification Failed"
      /\ otpChallengeId = q.cid
      /\ otpChallengeId' = q.cid
      /\ UNCHANGED <<storeVars, pathname, navTimers>>
      /\ IsLoginPage(pathname')
      /\ ~isVerifyingOtp'
      /\ AuthInFlight' < MaxAuthInFlight

C12_FailedVerifyRetryable == [][C12_FailedStep]_vars

C12_Witness ==
  /\ toast = "Verification Failed"
  /\ token = None /\ user = None
  /\ isVerifyingOtp
  /\ \E q \in otpReq : ~q.stale /\ q.cid = otpChallengeId

StaleKept == UNCHANGED <<token, user, pathname, navTimers>>

C22_StaleStep ==
  /\ \A q \in loginReq :
       \A k \in {"session", "challenge", "fail", "throw"} :
         (q.stale /\ LoginResponse(q, k)) => StaleKept
  /\ \A q \in otpReq :
       \A o \in {"ok", "fail", "throw"} :
         (q.stale /\ VerifyOtpResponse(q, o)) => StaleKept
  /\ \A r \in profileReq :
       \A o \in {"ok", "fail", "throw"} :
         (r.stale /\ ProfileResponse(r, o)) => StaleKept
  /\ \A r \in reqs :
       \A o \in {"ok", "fail", "throw"} :
         (/\ r.stale
          /\ \/ StatusResponse(r, o) \/ AssignResponse(r, o)
             \/ ProgressResponse(r, o) \/ RefetchDone(r, o)) =>
           StaleKept /\ UNCHANGED pageVars

(* C22: a login, OTP-verify, profile or ticket response that arrives after *)
(* the view that sent the request was left (other than a 401) changes      *)
(* neither the stored token, nor the cached user, nor the location, nor    *)
(* the pending redirects, nor the state of the tickets page.               *)
C22_LateResponseDiscarded == [][C22_StaleStep]_vars

(* C26: the stored session is all-or-nothing: a cached user is present     *)
(* only if a token is present, whatever the order in which logout and the  *)
(* responses of the settings modal (profile load, 2FA confirm) complete.   *)
C26_UserOnlyWithToken == user # None => token # None

(* ======================= claims on the incident report ================= *)

C24_BlockedStep ==
  (reportHandleSubmit /\ coords = None) =>
    /\ incidentReq' = incidentReq
    /\ toast' = "Location Required"

C24_AmendedStep ==
  /\ (reportHandleSubmit /\ coords = None) =>
       /\ incidentReq' = incidentReq
       /\ ~reportIsSubmitting'
       /\ toast' = IF images = 0 THEN "Photos Required" ELSE "Location Required"
       /\ images > 0 => locationDialogOpen'
  /\ \A r \in incidentReq' : r.coords # None

PurposeOf(target) == IF target = "enable" THEN "enable2fa" ELSE "disable2fa"

(* C13: the modal holds one challengeId for the password change and one    *)
(* (with its target) for 2FA.  A successful OTP request replaces the held  *)
(* challengeId by the one the backend just issued for that purpose; the    *)
(* held challengeId changes in no other way except to none; every confirm  *)
(* call carries the held challengeId (and for 2FA the held target), which  *)
(* is never none, so it carries the challengeId returned by the most       *)
(* recent successful request of the form for that purpose.                 *)
C13_ChallengeStep ==
  /\ \A r \in settingsReq :
       (~r.stale /\ PasswordOtpResponse(r, "ok")) =>
         /\ passwordChallengeId' = srvChallenge'["password"]
         /\ passwordChallengeId' \notin {0, passwordChallengeId}
         /\ passwordChallengeId \notin srvValid'
  /\ \A r \in settingsReq :
       (~r.stale /\ TwoFactorOtpResponse(r, "ok")) =>
         /\ twoFactorChallengeId' = srvChallenge'[PurposeOf(r.target)]
         /\ twoFactorTarget' = r.target
         /\ twoFactorChallengeId' # 0
  /\ (passwordChallengeId' \notin {0, passwordChallengeId}) =>
       \E r \in settingsReq : ~r.stale /\ PasswordOtpResponse(r, "ok")
  /\ (<<twoFactorChallengeId, twoFactorTarget>>' #
        <<twoFactorChallengeId, twoFactorTarget>> /\ twoFactorChallengeId' # 0) =>
       \E r \in settingsReq : ~r.stale /\ TwoFactorOtpResponse(r, "ok")
  /\ \A r \in {x \in settingsReq' \ settingsReq : ~x.stale} :
       /\ r.kind = "confirmPasswordChange" =>
            /\ r.cid = passwordChallengeId /\ r.cid # 0
            /\ r.cid \in 1..srvIssued
       /\ r.kind = "confirmTwoFactor" =>
            /\ r.cid = twoFactorChallengeId /\ r.cid # 0
            /\ r.target = twoFactorTarget /\ r.target # None
            /\ r.cid \in 1..srvIssued

C13_ConfirmCarriesLatestChallenge == [][C13_ChallengeStep]_vars

C13_Witness ==
  /\ srvChallenge["password"] = 2
  /\ 1 \notin srvValid
  /\ passwordChallengeId = 2
  /\ \E r \in settingsReq :
       r.kind = "confirmPasswordChange" /\ ~r.stale /\ r.cid = 2

(* C29: the new password sent by confirmPasswordChange is the value that   *)
(* was validated when the OTP was requested: every confirm request sent    *)
(* carries a non-empty new password equal to the confirm-password field,   *)
(* whatever was typed since the OTP request.                               *)
C29_ConfirmStep ==
  \A r \in settingsReq' \ settingsReq :
    (r.kind = "confirmPasswordChange" /\ ~r.stale) =>
      /\ r.newPassword # ""
      /\ r.newPassword = confirmPassword

C29_SentPasswordIsValidated == [][C29_ConfirmStep]_vars

(* ======================= claims on the route guard ===================== *)

Guarded == Paths \ {"/login", "/official/login"}

UnderOfficial(path) ==
  path \in {"/official/dashboard", "/official/tickets",
            "/official/supervisor/dashboard"}

Home(a) ==
  CASE userTypeOf(a) = "citizen" -> "/dashboard"
    [] userTypeOf(a) = "official" -> "/official/dashboard"
    [] userTypeOf(a) = "head_supervisor" -> "/official/supervisor/dashboard"
    [] OTHER -> None

(* C7: with no session the guard redirects to the official login when the  *)
(* attempted route lies under the official section, and to the citizen     *)
(* login otherwise.                                                        *)
C7_NoSessionStep ==
  \A path \in Guarded :
    (Navigate(path) /\ ~isAuthenticated) =>
      pathname' = IF UnderOfficial(path) THEN "/official/login" ELSE "/login"

C7_NoSessionToMatchingLogin == [][C7_NoSessionStep]_vars

(* C8: an authenticated user who asks for a route of another role class is *)
(* redirected to the home of the user's own class: the route does not      *)
(* render, the user does not stay in place and is not sent to a login page.*)
C8_MismatchStep ==
  \A path \in Guarded :
    ((Navigate(path) \/ TimerFires(path))
       /\ isAuthenticated /\ getCurrentUser # None
       /\ RouteRole(path) # userTypeOf(getCurrentUser)) =>
      /\ pathname' = Home(getCurrentUser)
      /\ pathname' # path
      /\ ~IsLoginPage(pathname')

C28_NormalisersAgree ==
  /\ (dashboardRole # None /\ layoutRole # None) =>
       ((dashboardRole = "department") <=> (layoutRole = "department"))
  /\ (layoutRole # None /\ teamRole.has) => (teamNavShown <=> isDepartment)
  /\ (dashboardRole # None /\ teamRole.has) =>
       ((dashboardRole = "department") <=> isDepartment)

(* ======================= claims on the busy flags ====================== *)

(* C30: every busy flag that a handler sets is cleared again once the      *)
(* handler's request has completed, whatever the outcome (success,         *)
(* failure response, OTP challenge, rejection): under ResponsesArrive no   *)
(* flag stays set for ever.                                                *)
C30_BusyEventuallyCleared ==
  /\ isSubmitting ~> ~isSubmitting
  /\ isVerifyingOtp ~> ~isVerifyingOtp
  /\ (statusSubmittingId # None) ~> (statusSubmittingId = None)
  /\ (assigningTicketId # None) ~> (assigningTicketId = None)
  /\ (progressSubmittingId # None) ~> (progressSubmittingId = None)
  /\ passwordBusy ~> ~passwordBusy
  /\ passwordConfirmBusy ~> ~passwordConfirmBusy
  /\ twoFactorBusy ~> ~twoFactorBusy
  /\ reportIsSubmitting ~> ~reportIsSubmitting

(* A status change on the tickets page came back with a failure response   *)
(* and its flag has been cleared: the ticket can be acted on again.        *)
C30_Witness ==
  /\ isTicketsPage /\ user = "dept" /\ token = user
  /\ toast = "Action Failed"
  /\ statusSubmittingId = None
  /\ reqs = {}
  /\ "resolve" \in OfferedActions(isTicketsPage, role, tickets["T1"])

(* ======================= claims on logout and 401 ====================== *)

(* C9: after any completed logout (the logout button, or the forced logout *)
(* after a role-mismatch login) isAuthenticated() is false and             *)
(* getCurrentUser() is none, whatever the outcome of POST /auth/logout.    *)
C9_LogoutStep ==
  \A r \in logoutReq, o \in ApiOutcomes :
    LogoutResponse(r, o) => (~isAuthenticated' /\ getCurrentUser' = None)

C9_LogoutRemovesBoth == [][C9_LogoutStep]_vars

(* C10: a request answered with 401 leaves no token and no user, and the   *)
(* browser at the official login for an official or head-supervisor        *)
(* session and at the citizen login otherwise.                             *)
C10_UnauthorizedStep ==
  ( \/ \E q \in loginReq : LoginResponse(q, "unauthorized")
    \/ \E q \in otpReq : VerifyOtpResponse(q, "unauthorized")
    \/ \E r \in logoutReq : LogoutResponse(r, "unauthorized") ) =>
    /\ ~isAuthenticated'
    /\ getCurrentUser' = None
    /\ pathname' = (IF user # None /\ userTypeOf(user) # "citizen"
                    THEN "/official/login" ELSE "/login")
    /\ RouteGuard("citizen", "/dashboard")' = "/login"

====
